---------------------------- MODULE Spec2Model ----------------------------
(***************************************************************************)
(* A model of the terrain streaming core of vulkan-forge: the tile state   *)
(* machine (TerrainTile), the tile manager (TerrainTileManager), the       *)
(* memory pools (TerrainMemoryPool) and the allocator built on them        *)
(* (TerrainMemoryAllocator).  Each subsystem has its own specification;    *)
(* the variables of the other subsystems are pinned while it runs.         *)
(***************************************************************************)
EXTENDS Integers, Sequences, FiniteSets, TLC

VARIABLES
    \* ---- TerrainTile (one tile object, called from several threads)
    m_state,          \* std::atomic<TileState> m_state
    m_cpuData,        \* TRUE iff m_cpuData.heightData is non-empty
    m_gpuResources,   \* which handles of TileGPUResources are not VK_NULL_HANDLE
    m_mutex,          \* owner of TerrainTile::m_mutex, or NoThread
    pc,               \* each thread's position inside a tile operation
    entry,            \* m_state as the operation found it when it took the lock
    ret,              \* what each thread's last finished call returned
    visited,          \* history: the last state of the forward chain the tile was in
    wentBack,         \* history: the tile has gone from Ready back to Loaded
    \* ---- TerrainTileManager
    m_tiles,          \* coordinate -> tile record, the unordered_map
    m_maxTiles,
    m_maxMemoryUsage,
    held,             \* coordinates whose tile object a caller still holds a shared_ptr to
    mgr,              \* "ok", or what became of the thread inside the manager
    lastCall,         \* history: the manager call that finished last, and how
    configuredEmpty,  \* history: setMaxTiles was only ever called on an empty map
    \* ---- TerrainMemoryPool / TerrainMemoryAllocator
    pools,            \* type -> pool record
    allocs,           \* allocation id -> TerrainMemoryAllocation record
    alive,            \* FALSE once a double free has brought the process down
    m_initialized,
    m_backgroundThreadRunning,
    lastAlloc,        \* history: the last pool allocate call
    config,           \* the allocator's TerrainMemoryConfig (the fields the code reads)
    callbacks,        \* which of the two callbacks are set
    m_stats,          \* the global statistics snapshot
    events,           \* history: what the allocator call that ran last did, in order
    \* ---- TerrainRenderer
    rendererInitialized,  \* TerrainRenderer::m_initialized
    m_activeDataset,      \* "" while no dataset is loaded
    m_datasets,           \* the ids the dataset table has an entry for
    m_threadsRunning,
    m_loadingQueue,       \* the queue of scheduled loads, oldest first
    tileObjs,             \* the TerrainTile objects made by the loaders, by entry id
    rendererTiles,        \* TerrainRenderer::m_tiles: coordinate -> tile object
    m_tilesMutex,         \* who holds m_tilesMutex, or "free"
    loader,               \* each loader thread: where it is and which entry it holds
    streaming,            \* where the streaming thread is
    main,                 \* where the thread calling the renderer is
    visibleTiles,         \* m_currentFrame.visibleTiles
    frame,                \* history: what the current render call has done so far
    takes,                \* history: which loaders took each entry off the queue
    \* ---- GPUQuadtree, and the functions checked on drawn inputs
    quadtree,             \* the node tree, objects_, object_count_, the compute pipeline
    cullCall,             \* history: the culling call that ran last and its two lists
    calc,                 \* the inputs drawn for a function and what it returned
    \* ---- set-up: TerrainRenderer::initialize / updateConfig, HeightfieldScene
    rendererConfig,       \* TerrainRenderer::m_config (the fields drawn)
    rendererResources,    \* what initialize has created and the renderer holds
    scene,                \* HeightfieldScene: width_, height_, heights_
    lastSetup,            \* history: the set-up call that ran last, and what it found
    \* ---- the two lock domains of TerrainMemoryAllocator
    mutexOwner,           \* the thread holding each pool m_mutex and m_statsMutex ({} when free)
    lockCall              \* per thread: the allocator call it is in and the lock steps it has left

tileVars == <<m_state, m_cpuData, m_gpuResources, m_mutex, pc, entry, ret, visited, wentBack>>
mgrVars  == <<m_tiles, m_maxTiles, m_maxMemoryUsage, held, mgr, lastCall, configuredEmpty>>
memVars  == <<pools, allocs, alive, m_initialized, m_backgroundThreadRunning,
             lastAlloc, config, callbacks, m_stats, events>>
rndVars  == <<rendererInitialized, m_activeDataset, m_datasets, m_threadsRunning, m_loadingQueue,
             tileObjs, rendererTiles, m_tilesMutex, loader, streaming, main,
             visibleTiles, frame, takes>>
cullVars == <<quadtree, cullCall, calc>>
setupVars == <<rendererConfig, rendererResources, scene, lastSetup>>
lockVars == <<mutexOwner, lockCall>>
vars     == <<tileVars, mgrVars, memVars, rndVars, cullVars, setupVars, lockVars>>

-----------------------------------------------------------------------------
(***************************************************************************)
(* TerrainTile                                                             *)
(***************************************************************************)

NumThreads == 2
Threads == 1..NumThreads
NoThread == 0

TileState == {"Empty", "Loading", "Loaded", "Uploading", "Ready", "Error", "Evicted"}

\* The forward chain, and each state's place in it (0 for Error and Evicted).
Chain == <<"Empty", "Loading", "Loaded", "Uploading", "Ready">>
ChainStates == {Chain[i] : i \in 1..Len(Chain)}
Rank(s) == IF s \in ChainStates THEN CHOOSE i \in 1..Len(Chain) : Chain[i] = s ELSE 0

NullGPU == [vertexBuffer |-> FALSE, heightTexture |-> FALSE]

\* TileGPUResources::isValid
IsValid(gpu) == gpu.vertexBuffer /\ gpu.heightTexture

\* TileGPUResources::destroy: every handle back to VK_NULL_HANDLE
Destroy(gpu) == NullGPU

\* TerrainTile::hasValidGPUResources
hasValidGPUResources == IsValid(m_gpuResources)

\* The guard of loadData: only an Empty tile is loaded.
\* (LoadDataGuardOrEvicted: a guard that also lets an Evicted tile in, for comparison.)
LoadDataGuardOrEvicted(s) == s \in {"Empty", "Evicted"}
LoadDataGuard(s) == s = "Empty"

\* The guard of uploadToGPU: only a Loaded tile is uploaded.
UploadGuard(s) == s = "Loaded"

\* loadFromCache always reports VK_ERROR_FEATURE_NOT_PRESENT; loadFromDisk
\* fills m_cpuData with synthetic heights and always reports VK_SUCCESS.
LoadFromCacheResult == "VK_ERROR_FEATURE_NOT_PRESENT"
LoadFromDiskResults == {"VK_SUCCESS"}

\* Where createVertexBuffer can stop (the GPU layer decides).
VertexBufferSteps == {"createBuffer_failed", "uploadBufferData_failed", "ok"}
\* Where createHeightTexture can stop.
HeightTextureSteps == {"staging_failed", "vkCreateImage_failed",
                       "vkAllocateMemory_failed", "vkCreateImageView_failed", "ok"}

createVertexBuffer(cpu, gpu, step) ==
    IF ~cpu \/ step = "createBuffer_failed"
    THEN [ok |-> FALSE, gpu |-> gpu]
    ELSE [ok |-> step = "ok", gpu |-> [gpu EXCEPT !.vertexBuffer = TRUE]]

\* A failure after vkCreateImage leaves the heightTexture handle set.
createHeightTexture(cpu, gpu, step) ==
    IF ~cpu \/ step \in {"staging_failed", "vkCreateImage_failed"}
    THEN [ok |-> FALSE, gpu |-> gpu]
    ELSE [ok |-> step = "ok", gpu |-> [gpu EXCEPT !.heightTexture = TRUE]]

\* The state unloadFromGPU leaves the tile in.
\* (UnloadStateToEmpty: the same with Empty in place of Loaded, for comparison.)
UnloadStateToEmpty(s) == IF s = "Ready" THEN "Empty" ELSE s
UnloadState(s) == IF s = "Ready" THEN "Loaded" ELSE s

\* The state evictFromMemory leaves the tile in.
\* (EvictStateAlways: the same without the test for Error, for comparison.)
EvictStateAlways(s) == "Evicted"
EvictState(s) == IF s # "Error" THEN "Evicted" ELSE s

\* evictFromMemory holds m_mutex (a std::mutex) and calls unloadFromGPU, which
\* locks m_mutex again on the same thread: undefined behaviour.  The builds
\* differ in what happens: the thread blocks on itself for ever, lock() throws
\* std::system_error, or the second lock goes through.
RelockOutcomes == {"blocks", "throws", "proceeds"}

\* history: the last chain state the tile was in
Visit(s) == IF s \in ChainStates THEN s ELSE visited

SetState(th, s, newPc, r) ==
    /\ m_state' = s
    /\ visited' = Visit(s)
    /\ pc' = [pc EXCEPT ![th] = newPc]
    /\ ret' = [ret EXCEPT ![th] = r]

\* loadData up to setState(Loading): lock, guard, Loading.
LoadDataEnter(th) ==
    /\ pc[th] = "idle" /\ m_mutex = NoThread
    /\ entry' = [entry EXCEPT ![th] = m_state]
    /\ IF LoadDataGuard(m_state)
       THEN /\ SetState(th, "Loading", "loadData", "pending")
            /\ m_mutex' = th
       ELSE /\ ret' = [ret EXCEPT ![th] = "VK_ERROR_INITIALIZATION_FAILED"]
            /\ UNCHANGED <<m_state, visited, pc, m_mutex>>
    /\ UNCHANGED <<m_cpuData, m_gpuResources, wentBack>>

\* loadData from the cache miss to its return.
LoadDataFinish(th) ==
    /\ pc[th] = "loadData"
    /\ LoadFromCacheResult # "VK_SUCCESS"
    /\ \E r \in LoadFromDiskResults :
         IF r = "VK_SUCCESS"
         THEN /\ m_cpuData' = TRUE
              /\ SetState(th, "Loaded", "idle", "VK_SUCCESS")
         ELSE /\ m_cpuData' = m_cpuData
              /\ SetState(th, "Error", "idle", r)
    /\ m_mutex' = NoThread
    /\ UNCHANGED <<m_gpuResources, entry, wentBack>>

\* uploadToGPU up to setState(Uploading).
UploadEnter(th) ==
    /\ pc[th] = "idle" /\ m_mutex = NoThread
    /\ entry' = [entry EXCEPT ![th] = m_state]
    /\ IF UploadGuard(m_state)
       THEN /\ SetState(th, "Uploading", "uploadToGPU", "pending")
            /\ m_mutex' = th
       ELSE /\ ret' = [ret EXCEPT ![th] = "VK_ERROR_INITIALIZATION_FAILED"]
            /\ UNCHANGED <<m_state, visited, pc, m_mutex>>
    /\ UNCHANGED <<m_cpuData, m_gpuResources, wentBack>>

\* uploadToGPU from createVertexBuffer to its return (normalData is always
\* empty and createDescriptorSet always succeeds).
UploadFinish(th) ==
    /\ pc[th] = "uploadToGPU"
    /\ \E vs \in VertexBufferSteps, hs \in HeightTextureSteps :
         LET vb == createVertexBuffer(m_cpuData, m_gpuResources, vs)
             ht == createHeightTexture(m_cpuData, vb.gpu, hs)
         IN  IF ~vb.ok
             THEN /\ m_gpuResources' = vb.gpu
                  /\ SetState(th, "Error", "idle", "VK_ERROR")
             ELSE /\ m_gpuResources' = ht.gpu
                  /\ IF ht.ok
                     THEN SetState(th, "Ready", "idle", "VK_SUCCESS")
                     ELSE SetState(th, "Error", "idle", "VK_ERROR")
    /\ m_mutex' = NoThread
    /\ UNCHANGED <<m_cpuData, entry, wentBack>>

\* unloadFromGPU, called directly: lock, destroy, Ready -> Loaded, unlock.
UnloadFromGPU(th) ==
    /\ pc[th] = "idle" /\ m_mutex = NoThread
    /\ entry' = [entry EXCEPT ![th] = m_state]
    /\ m_gpuResources' = Destroy(m_gpuResources)
    /\ SetState(th, UnloadState(m_state), "idle", "void")
    /\ wentBack' = (wentBack \/ m_state = "Ready")
    /\ UNCHANGED <<m_cpuData, m_mutex>>

\* evictFromMemory: takes the lock.
EvictEnter(th) ==
    /\ pc[th] = "idle" /\ m_mutex = NoThread
    /\ entry' = [entry EXCEPT ![th] = m_state]
    /\ m_mutex' = th
    /\ pc' = [pc EXCEPT ![th] = "evictFromMemory"]
    /\ ret' = [ret EXCEPT ![th] = "pending"]
    /\ UNCHANGED <<m_state, visited, m_cpuData, m_gpuResources, wentBack>>

\* evictFromMemory: the nested unloadFromGPU locks the mutex its caller holds.
EvictUnload(th) ==
    /\ pc[th] = "evictFromMemory"
    /\ \E o \in RelockOutcomes :
        CASE o = "blocks" ->
               /\ pc' = [pc EXCEPT ![th] = "blocked"]
               /\ UNCHANGED <<m_state, visited, ret, m_gpuResources, m_mutex>>
          [] o = "throws" ->
               /\ pc' = [pc EXCEPT ![th] = "idle"]
               /\ ret' = [ret EXCEPT ![th] = "std::system_error"]
               /\ m_mutex' = NoThread
               /\ UNCHANGED <<m_state, visited, m_gpuResources>>
          [] o = "proceeds" ->
               /\ m_gpuResources' = Destroy(m_gpuResources)
               /\ SetState(th, UnloadState(m_state), "evictFromMemory_clear", "pending")
               /\ UNCHANGED m_mutex
    /\ wentBack' = (wentBack \/ (m_state = "Ready" /\ m_state' = "Loaded"))
    /\ UNCHANGED <<m_cpuData, entry>>

\* evictFromMemory: m_cpuData.clear(), Evicted unless Error, unlock.
EvictClear(th) ==
    /\ pc[th] = "evictFromMemory_clear"
    /\ m_cpuData' = FALSE
    /\ SetState(th, EvictState(m_state), "idle", "void")
    /\ m_mutex' = NoThread
    /\ UNCHANGED <<m_gpuResources, entry, wentBack>>

TileInitState ==
    /\ m_state = "Empty"
    /\ m_cpuData = FALSE
    /\ m_gpuResources = NullGPU
    /\ m_mutex = NoThread
    /\ pc = [th \in Threads |-> "idle"]
    /\ entry = [th \in Threads |-> "Empty"]
    /\ ret = [th \in Threads |-> "none"]
    /\ visited = "Empty"
    /\ wentBack = FALSE

\* A step that continues an operation already inside the tile.
TileContinue(th) ==
    \/ LoadDataFinish(th)
    \/ UploadFinish(th)
    \/ EvictUnload(th)
    \/ EvictClear(th)

-----------------------------------------------------------------------------
(***************************************************************************)
(* TerrainTileManager                                                      *)
(***************************************************************************)

MaxX == 1
MaxFrames == 1
MaxTilesChoice == 1

\* The coordinates the callers ask for.
Coordinates == {[x |-> i, y |-> 0, level |-> 0, datasetId |-> "ds"] : i \in 0..MaxX}

DefaultMaxTiles == 1000
DefaultMaxMemoryUsage == 1073741824
DEFAULT_TILE_SIZE == 512
SizeofFloat == 4

\* TileCPUData::getMemoryUsage of a tile loadFromDisk has filled: only
\* heightData is populated, size * size floats.
LoadedTileBytes == DEFAULT_TILE_SIZE * DEFAULT_TILE_SIZE * SizeofFloat

\* The budgets callers give setMaxMemoryUsage: half a loaded tile.
MemoryBudgets == {LoadedTileBytes \div 2}

\* A tile as the constructor leaves it.
NewTile == [state |-> "Empty", framesSinceAccess |-> 0, cpuBytes |-> 0, priority |-> 0]

RECURSIVE SumBytes(_, _)
SumBytes(tiles, cs) ==
    IF cs = {} THEN 0
    ELSE LET c == CHOOSE c \in cs : TRUE
         IN  tiles[c].cpuBytes + SumBytes(tiles, cs \ {c})

\* TerrainTileManager::getTotalMemoryUsage
getTotalMemoryUsage(tiles) == SumBytes(tiles, DOMAIN tiles)

\* enforceLimits: how many tiles go.
\* (TilesToRemoveOneShort: an enforcement that stops one tile early, for comparison.)
TilesToRemoveOneShort(size, maxTiles) == IF size <= maxTiles THEN 0 ELSE size - maxTiles - 1
TilesToRemove(size, maxTiles) == IF size <= maxTiles THEN 0 ELSE size - maxTiles

\* getLRUTiles(count): the first count tiles after std::sort by
\* framesSinceAccess descending; std::sort orders equal keys arbitrarily, so
\* every set of count tiles that no remaining tile outranks is possible.
\* (getMRUTiles: the same with the sort ascending, for comparison.)
getMRUTiles(tiles, count) ==
    LET n == IF count <= Cardinality(DOMAIN tiles) THEN count ELSE Cardinality(DOMAIN tiles)
    IN  {R \in SUBSET (DOMAIN tiles) :
            /\ Cardinality(R) = n
            /\ \A r \in R, k \in (DOMAIN tiles) \ R :
                  tiles[r].framesSinceAccess <= tiles[k].framesSinceAccess}
getLRUTiles(tiles, count) ==
    LET n == IF count <= Cardinality(DOMAIN tiles) THEN count ELSE Cardinality(DOMAIN tiles)
    IN  {R \in SUBSET (DOMAIN tiles) :
            /\ Cardinality(R) = n
            /\ \A r \in R, k \in (DOMAIN tiles) \ R :
                  tiles[r].framesSinceAccess >= tiles[k].framesSinceAccess}

Without(tiles, R) == [c \in (DOMAIN tiles) \ R |-> tiles[c]]
With(tiles, c, t) == [k \in (DOMAIN tiles) \cup {c} |-> IF k = c THEN t ELSE tiles[k]]

\* history: what lastCall holds after a call that is not createTile
OtherCall == [op |-> "other", how |-> "void", removed |-> 0]

\* createTile's m_tiles.find(coordinate) != m_tiles.end()
\* (NeverFound: a lookup that misses every time, for comparison.)
NeverFound(tiles, c) == FALSE
Found(tiles, c) == c \in DOMAIN tiles

\* createTile.  A coordinate already in the map is returned as it is.
\* Otherwise the new tile is inserted and enforceLimits erases the LRU tiles;
\* an erased tile nobody else holds is destroyed there, and ~TerrainTile
\* calls evictFromMemory, whose nested lock is undefined behaviour: the call
\* returns, blocks for ever inside the manager's lock, or (an exception
\* leaving a destructor) terminates the process.
CreateTile(c) ==
    /\ mgr = "ok"
    /\ IF Found(m_tiles, c)
       THEN /\ lastCall' = [op |-> "createTile", how |-> "existing", removed |-> 0,
                            coord |-> c, removedFrames |-> {}]
            /\ held' = held \cup {c}
            /\ UNCHANGED <<m_tiles, mgr>>
       ELSE LET inserted == With(m_tiles, c, NewTile)
                count == TilesToRemove(Cardinality(DOMAIN inserted), m_maxTiles)
            IN  \E R \in getLRUTiles(inserted, count) :
                \E o \in RelockOutcomes :
                  LET destroyed == {r \in R : r \notin held /\ r # c}
                      how == IF destroyed = {} \/ o = "proceeds" THEN "inserted"
                             ELSE IF o = "blocks" THEN "blocked" ELSE "terminated"
                  IN  /\ destroyed = {} => o = "proceeds"
                      /\ m_tiles' = Without(inserted, R)
                      /\ held' = (held \ R) \cup (IF c \in R THEN {} ELSE {c})
                      /\ mgr' = IF how = "inserted" THEN "ok" ELSE how
                      /\ lastCall' = [op |-> "createTile", how |-> how,
                                      removed |-> Cardinality(R), coord |-> c,
                                      removedFrames |->
                                          {inserted[r].framesSinceAccess : r \in R}]
    /\ UNCHANGED <<m_maxTiles, m_maxMemoryUsage, configuredEmpty>>

\* setMaxTiles / setMaxMemoryUsage: plain stores.
SetMaxTiles(n) ==
    /\ mgr = "ok"
    /\ m_maxTiles' = n
    /\ configuredEmpty' = (configuredEmpty /\ DOMAIN m_tiles = {})
    /\ lastCall' = OtherCall
    /\ UNCHANGED <<m_tiles, m_maxMemoryUsage, held, mgr>>

SetMaxMemoryUsage(n) ==
    /\ mgr = "ok"
    /\ m_maxMemoryUsage' = n
    /\ lastCall' = OtherCall
    /\ UNCHANGED <<m_tiles, m_maxTiles, held, mgr, configuredEmpty>>

\* A caller lets go of the shared_ptr it got from createTile.
DropReference(c) ==
    /\ mgr # "terminated"
    /\ c \in held
    /\ held' = held \ {c}
    /\ lastCall' = OtherCall
    /\ UNCHANGED <<m_tiles, m_maxTiles, m_maxMemoryUsage, mgr, configuredEmpty>>

\* loadData on a tile of the map, start to end (see LoadDataEnter/Finish).
LoadTile(c) ==
    /\ mgr # "terminated"
    /\ c \in DOMAIN m_tiles
    /\ LoadDataGuard(m_tiles[c].state)
    /\ m_tiles' = [m_tiles EXCEPT ![c].state = "Loaded", ![c].cpuBytes = LoadedTileBytes]
    /\ lastCall' = OtherCall
    /\ UNCHANGED <<m_maxTiles, m_maxMemoryUsage, held, mgr, configuredEmpty>>

\* incrementFrameCounter on a tile of the map.
IncrementFrameCounter(c) ==
    /\ mgr # "terminated"
    /\ c \in DOMAIN m_tiles
    /\ m_tiles[c].framesSinceAccess < MaxFrames
    /\ m_tiles' = [m_tiles EXCEPT ![c].framesSinceAccess = @ + 1]
    /\ lastCall' = OtherCall
    /\ UNCHANGED <<m_maxTiles, m_maxMemoryUsage, held, mgr, configuredEmpty>>

\* markAccessed on a tile of the map.
MarkAccessed(c) ==
    /\ mgr # "terminated"
    /\ c \in DOMAIN m_tiles
    /\ m_tiles[c].framesSinceAccess > 0
    /\ m_tiles' = [m_tiles EXCEPT ![c].framesSinceAccess = 0]
    /\ lastCall' = OtherCall
    /\ UNCHANGED <<m_maxTiles, m_maxMemoryUsage, held, mgr, configuredEmpty>>

\* The comparator getHighPriorityLoadingQueue gives std::sort: a comes before
\* b when its priority is greater.
\* (PriorityAscending: the comparator the other way round, for comparison.)
PriorityAscending(a, b) == a < b
PriorityBefore(a, b) == a > b

\* Every order of the coordinates cs that std::sort can leave them in: no
\* element comes before one that the comparator puts before it (std::sort is
\* not stable, so equal priorities come out in any order).
SortedByPriority(tiles, cs) ==
    {s \in [1..Cardinality(cs) -> cs] :
        /\ \A i, j \in 1..Cardinality(cs) : i # j => s[i] # s[j]
        /\ \A i, j \in 1..Cardinality(cs) :
              i < j => ~PriorityBefore(tiles[s[j]].priority, tiles[s[i]].priority)}

\* getHighPriorityLoadingQueue(maxCount): the Empty and Evicted tiles of the
\* map, sorted by priority, cut to min(maxCount, size).  The set of the
\* results the call can return.
getHighPriorityLoadingQueue(tiles, maxCount) ==
    LET priorityList == {c \in DOMAIN tiles : tiles[c].state \in {"Empty", "Evicted"}}
        count == IF maxCount <= Cardinality(priorityList) THEN maxCount
                 ELSE Cardinality(priorityList)
    IN  {SubSeq(s, 1, count) : s \in SortedByPriority(tiles, priorityList)}

\* A call of getHighPriorityLoadingQueue: reads the map under the shared lock.
GetHighPriorityLoadingQueue(maxCount) ==
    /\ mgr = "ok"
    /\ \E result \in getHighPriorityLoadingQueue(m_tiles, maxCount) :
         lastCall' = [op |-> "getHighPriorityLoadingQueue", maxCount |-> maxCount,
                      result |-> result]
    /\ UNCHANGED <<m_tiles, m_maxTiles, m_maxMemoryUsage, held, mgr, configuredEmpty>>

\* The priorities and the maxCount arguments tried.
MaxPriority == 2
MaxCount == 3

\* A map as getHighPriorityLoadingQueue can find it: any of the coordinates,
\* each with a tile in any state and with any priority.
QueueTiles == [state : TileState, framesSinceAccess : {0}, cpuBytes : {0},
               priority : 0..MaxPriority]
QueueMgrInitState ==
    /\ \E D \in SUBSET Coordinates : m_tiles \in [D -> QueueTiles]
    /\ m_maxTiles = DefaultMaxTiles
    /\ m_maxMemoryUsage = DefaultMaxMemoryUsage
    /\ held = {}
    /\ mgr = "ok"
    /\ lastCall = OtherCall
    /\ configuredEmpty = TRUE

MgrInitState ==
    /\ m_tiles = [c \in {} |-> NewTile]
    /\ m_maxTiles = DefaultMaxTiles
    /\ m_maxMemoryUsage = DefaultMaxMemoryUsage
    /\ held = {}
    /\ mgr = "ok"
    /\ lastCall = OtherCall
    /\ configuredEmpty = TRUE

-----------------------------------------------------------------------------
(***************************************************************************)
(* TerrainMemoryPool                                                       *)
(*                                                                         *)
(* size_t and uint32_t counters are kept as the representative of their    *)
(* value modulo 2^64 (2^32) that lies nearest zero: a counter that was     *)
(* decremented below zero, and so wrapped to a value near 2^64, is held as *)
(* a negative number.  U64Le compares the values such numbers stand for.   *)
(***************************************************************************)

MaxAllocations == 2
PreferredPoolSize == 1024

PoolTypes == {"VertexBuffer", "HeightTexture"}

VertexBufferAlignment == 256
TextureAlignment == 1024
MaxBlockCount == 8

\* TerrainMemoryConfig::typeConfigs, the fields the pools read.
TypeConfig(type) ==
    IF type = "VertexBuffer"
    THEN [preferredPoolSize |-> PreferredPoolSize,
          allocationAlignment |-> VertexBufferAlignment,
          enableDefragmentation |-> TRUE]
    ELSE [preferredPoolSize |-> PreferredPoolSize,
          allocationAlignment |-> TextureAlignment,
          enableDefragmentation |-> FALSE]

\* The sizes callers ask for, and the sizes they resize a pool to.
RequestSizes == {300, 600}
ResizeSizes == {0, 2 * PreferredPoolSize}

\* The calls made: buffers from the vertex-buffer pool, images from the texture pool.
KindOf(type) == IF type = "VertexBuffer" THEN "buffer" ELSE "image"

\* How often one allocation is handed to deallocate.
MaxDeallocates == 2

U64Le(a, b) == IF (a < 0) = (b < 0) THEN a <= b ELSE b < 0
U64Lt(a, b) == a # b /\ U64Le(a, b)

RECURSIVE BitAnd(_, _)
BitAnd(a, b) ==
    IF a = 0 \/ b = 0 THEN 0
    ELSE (IF a % 2 = 1 /\ b % 2 = 1 THEN 1 ELSE 0) + 2 * BitAnd(a \div 2, b \div 2)

\* (size + alignment - 1) & ~(alignment - 1), with x & ~m computed as x - (x & m)
AlignedSize(size, alignment) ==
    (size + alignment - 1) - BitAnd(size + alignment - 1, alignment - 1)

\* TerrainMemoryPool::canAllocate
canAllocate(pool, size, alignment) ==
    U64Le(pool.usedSize + AlignedSize(size, alignment), pool.totalSize)

\* A pool as its constructor leaves it: no VMA pool yet, nothing counted.
NewPool == [vmaPool |-> FALSE, totalSize |-> 0, usedSize |-> 0,
            activeAllocations |-> 0, m_allocations |-> {}]

VkResults == {"VK_SUCCESS", "VK_ERROR_OUT_OF_DEVICE_MEMORY"}

Ids(as) == DOMAIN as

\* What VMA holds for the pool of this type: allocations made and not destroyed.
RECURSIVE NativeUsed(_, _, _)
NativeUsed(as, type, ids) ==
    IF ids = {} THEN 0
    ELSE LET i == CHOOSE i \in ids : TRUE
         IN  (IF as[i].type = type /\ as[i].destroyed = 0 THEN as[i].size ELSE 0)
             + NativeUsed(as, type, ids \ {i})

\* vmaCreateBuffer / vmaCreateImage in a pool of blockSize preferredPoolSize and
\* maxBlockCount 8: out of memory when the request does not fit a block or the
\* blocks are used up; otherwise the device decides.
VmaCreateResults(as, type, size) ==
    IF \/ size > TypeConfig(type).preferredPoolSize
       \/ NativeUsed(as, type, Ids(as)) + size > MaxBlockCount * TypeConfig(type).preferredPoolSize
    THEN {"VK_ERROR_OUT_OF_DEVICE_MEMORY"}
    ELSE VkResults

\* TerrainMemoryPool::createPool, reached when m_vmaPool is VK_NULL_HANDLE.
createPool(pool, type, r) ==
    IF r = "VK_SUCCESS"
    THEN [pool EXCEPT !.vmaPool = TRUE, !.totalSize = TypeConfig(type).preferredPoolSize]
    ELSE pool

\* What allocateBuffer adds to m_usedSize.
BufferCharge(size, alignment) == size

\* TerrainMemoryPool::allocateBuffer.  cr and vr are what vmaCreatePool and
\* vmaCreateBuffer report; id is the allocation object made on success.
\* Gives the result, the pool afterwards and the allocation (a set of 0 or 1).
allocateBuffer(pool, type, size, cr, vr, id) ==
    LET p1 == IF pool.vmaPool THEN pool ELSE createPool(pool, type, cr)
        alignment == TypeConfig(type).allocationAlignment
    IN  IF ~p1.vmaPool
        THEN [result |-> cr, pool |-> p1, made |-> {}]
        ELSE IF ~canAllocate(p1, size, alignment)
        THEN [result |-> "VK_ERROR_OUT_OF_DEVICE_MEMORY", pool |-> p1, made |-> {}]
        ELSE IF vr # "VK_SUCCESS"
        THEN [result |-> vr, pool |-> p1, made |-> {}]
        ELSE [result |-> "VK_SUCCESS",
              pool |-> [p1 EXCEPT !.usedSize = @ + BufferCharge(size, alignment),
                                  !.activeAllocations = @ + 1,
                                  !.m_allocations = @ \cup {id}],
              made |-> {[type |-> type, size |-> size, alignment |-> alignment,
                         kind |-> "buffer", destroyed |-> 0, referenced |-> TRUE]}]

\* TerrainMemoryPool::allocateImage.  size is allocation->info.size, the
\* memory VMA gave the image.  There is no canAllocate test on this path.
allocateImage(pool, type, size, cr, vr, id) ==
    LET p1 == IF pool.vmaPool THEN pool ELSE createPool(pool, type, cr)
        alignment == TypeConfig(type).allocationAlignment
    IN  IF ~p1.vmaPool
        THEN [result |-> cr, pool |-> p1, made |-> {}]
        ELSE IF vr # "VK_SUCCESS"
        THEN [result |-> vr, pool |-> p1, made |-> {}]
        ELSE [result |-> "VK_SUCCESS",
              pool |-> [p1 EXCEPT !.usedSize = @ + size,
                                  !.activeAllocations = @ + 1,
                                  !.m_allocations = @ \cup {id}],
              made |-> {[type |-> type, size |-> size, alignment |-> alignment,
                         kind |-> "image", destroyed |-> 0, referenced |-> TRUE]}]

\* TerrainMemoryPool::deallocate on a non-null allocation whose handles are
\* set (they stay set after the native destroy): the counters go down and the
\* weak reference to this allocation, if the list has one, is erased.
deallocate(pool, a, id) ==
    [pool EXCEPT !.usedSize = @ - a.size,
                 !.activeAllocations = @ - 1,
                 !.m_allocations = @ \ {id}]

\* TerrainMemoryPool::resize
resize(pool, newSize) ==
    IF U64Lt(newSize, pool.usedSize)
    THEN [result |-> "VK_ERROR_VALIDATION_FAILED_EXT", pool |-> pool]
    ELSE [result |-> "VK_SUCCESS", pool |-> [pool EXCEPT !.totalSize = newSize]]

\* The weak references that have expired: nobody holds the allocation.
Expired(as, ids) == {i \in ids : ~as[i].referenced}

\* TerrainMemoryPool::cleanup
cleanup(pool, as) == [pool EXCEPT !.m_allocations = @ \ Expired(as, @)]

\* TerrainMemoryPool::defragment: nothing when the type's defragmentation is
\* off, else the same pruning (whether it then reports VK_TIMEOUT is the clock's).
defragment(pool, type, as) ==
    IF ~TypeConfig(type).enableDefragmentation THEN pool ELSE cleanup(pool, as)

\* TerrainMemoryPool::getFreeSize and getFragmentation: largestFreeBlock and
\* totalFreeMemory are the same number, so the estimate is 0 in every branch.
getFreeSize(pool) == pool.totalSize - pool.usedSize
getFragmentation(pool) ==
    IF pool.totalSize = 0 THEN 0
    ELSE IF getFreeSize(pool) = 0 THEN 0
    ELSE 1 - (getFreeSize(pool) \div getFreeSize(pool))

Append1(as, made) == IF made = {} THEN as ELSE Append(as, CHOOSE m \in made : TRUE)

NoAlloc == [op |-> "none", type |-> "none", size |-> 0, result |-> "none",
            existed |-> FALSE, usedBefore |-> 0, totalBefore |-> 0, id |-> 0]

\* A vmaDestroyBuffer / vmaDestroyImage of handles already destroyed is
\* undefined: the call comes back, or the process dies in it.
DoubleFreeOutcomes == {"returns", "crashes"}

\* ---- a pool used on its own, as a caller that constructed it would

PoolAllocate(type, kind, size) ==
    /\ alive
    /\ Len(allocs) < MaxAllocations
    /\ \E cr \in (IF pools[type].vmaPool THEN {"VK_SUCCESS"} ELSE VkResults) :
       \E vr \in VmaCreateResults(allocs, type, size) :
         LET id == Len(allocs) + 1
             r == IF kind = "buffer"
                  THEN allocateBuffer(pools[type], type, size, cr, vr, id)
                  ELSE allocateImage(pools[type], type, size, cr, vr, id)
         IN  /\ pools' = [pools EXCEPT ![type] = r.pool]
             /\ allocs' = Append1(allocs, r.made)
             /\ lastAlloc' = [op |-> kind, type |-> type, size |-> size,
                              result |-> r.result, existed |-> pools[type].vmaPool,
                              usedBefore |-> pools[type].usedSize,
                              totalBefore |-> pools[type].totalSize,
                              id |-> IF r.made = {} THEN 0 ELSE id]
    /\ UNCHANGED alive

\* deallocate(allocation) on a pool, with any allocation the caller holds.
PoolDeallocate(type, id) ==
    /\ alive
    /\ id \in Ids(allocs) /\ allocs[id].referenced
    /\ allocs[id].destroyed < MaxDeallocates
    /\ \E o \in DoubleFreeOutcomes :
         /\ allocs[id].destroyed = 0 => o = "returns"
         /\ IF o = "crashes"
            THEN /\ alive' = FALSE
                 /\ UNCHANGED <<pools, allocs>>
            ELSE /\ pools' = [pools EXCEPT ![type] = deallocate(@, allocs[id], id)]
                 /\ allocs' = [allocs EXCEPT ![id].destroyed = @ + 1]
                 /\ UNCHANGED alive
    /\ lastAlloc' = [NoAlloc EXCEPT !.op = "deallocate", !.type = type, !.id = id]

PoolResize(type, newSize) ==
    /\ alive
    /\ pools' = [pools EXCEPT ![type] = resize(@, newSize).pool]
    /\ lastAlloc' = [NoAlloc EXCEPT !.op = "resize", !.type = type, !.size = newSize,
                                    !.result = resize(pools[type], newSize).result]
    /\ UNCHANGED <<allocs, alive>>

PoolCleanup(type) ==
    /\ alive
    /\ pools' = [pools EXCEPT ![type] = cleanup(@, allocs)]
    /\ lastAlloc' = [NoAlloc EXCEPT !.op = "cleanup", !.type = type]
    /\ UNCHANGED <<allocs, alive>>

PoolDefragment(type) ==
    /\ alive
    /\ pools' = [pools EXCEPT ![type] = defragment(@, type, allocs)]
    /\ lastAlloc' = [NoAlloc EXCEPT !.op = "defragment", !.type = type]
    /\ UNCHANGED <<allocs, alive>>

\* The caller lets go of its shared_ptr to an allocation.
DropAllocation(id) ==
    /\ alive
    /\ id \in Ids(allocs) /\ allocs[id].referenced
    /\ allocs' = [allocs EXCEPT ![id].referenced = FALSE]
    /\ lastAlloc' = [NoAlloc EXCEPT !.op = "reset", !.id = id]
    /\ UNCHANGED <<pools, alive>>

-----------------------------------------------------------------------------
(***************************************************************************)
(* TerrainMemoryAllocator                                                  *)
(*                                                                         *)
(* maxTotalMemory is held in KiB (every configuration drawn is a whole     *)
(* number of KiB); the thresholds are held in percent.  The usage ratio is *)
(* a float division in the code; it is compared here in exact arithmetic.  *)
(***************************************************************************)

DefaultMaxTotalMemoryKiB == 2097152
WarningThresholdPct == 80
CriticalThresholdPct == 95
DefragmentationThresholdPct == 30
MaxTotalKiB == 1

\* The configurations initialize is given, and the callbacks callers install.
Configs == [maxTotalMemoryKiB : 1..MaxTotalKiB, enableAutoDefragmentation : BOOLEAN]
CallbackChoices == {[memoryPressure |-> TRUE, allocationFailed |-> TRUE]}
DefaultConfig == [maxTotalMemoryKiB |-> DefaultMaxTotalMemoryKiB,
                  enableAutoDefragmentation |-> TRUE]

\* One quantity of a pool, and its sum over the pools the allocator owns.
PoolQuantity(pool, f) ==
    CASE f = "total" -> pool.totalSize
      [] f = "used" -> pool.usedSize
      [] f = "free" -> getFreeSize(pool)
      [] f = "count" -> pool.activeAllocations
      [] f = "fragmentation" -> getFragmentation(pool)

RECURSIVE SumField(_, _, _)
SumField(ps, f, ts) ==
    IF ts = {} THEN 0
    ELSE LET t == CHOOSE t \in ts : TRUE
         IN  PoolQuantity(ps[t], f) + SumField(ps, f, ts \ {t})

TotalUsed(ps) == SumField(ps, "used", DOMAIN ps)

\* used / (maxKiB * 1024) > pct / 100, without forming the products that
\* overflow: with used = 1024 q + r it is r * 100 > (pct * maxKiB - 100 q) * 1024.
RatioAbove(used, maxKiB, pct) ==
    IF maxKiB = 0 THEN FALSE
    ELSE IF used < 0 THEN TRUE
    ELSE LET q == used \div 1024
             r == used % 1024
             a == pct * maxKiB - q * 100
         IN  IF a >= 100 THEN FALSE ELSE r * 100 > a * 1024

\* getMemoryUsageRatio() > threshold
UsageAbove(ps, cfg, pct) == RatioAbove(TotalUsed(ps), cfg.maxTotalMemoryKiB, pct)

\* updateGlobalStats: the snapshot recomputed from the pools.
updateGlobalStats(ps) ==
    [totalAllocated |-> SumField(ps, "total", DOMAIN ps),
     totalUsed |-> SumField(ps, "used", DOMAIN ps),
     totalFree |-> SumField(ps, "free", DOMAIN ps),
     activeAllocations |-> SumField(ps, "count", DOMAIN ps),
     poolCount |-> Cardinality(DOMAIN ps),
     fragmentation |-> IF DOMAIN ps = {} THEN 0
                       ELSE SumField(ps, "fragmentation", DOMAIN ps) \div Cardinality(DOMAIN ps)]

\* garbageCollect: cleanup on every pool.
garbageCollect(ps, as) == [t \in DOMAIN ps |-> cleanup(ps[t], as)]

\* The pools one defragment call can get through before a VK_TIMEOUT stops
\* the loop: the first pool always, the others as the clock allows.
DefragmentReach(ps) == {P \in SUBSET (DOMAIN ps) : P = {} => DOMAIN ps = {}}
\* The same, for a call where the loop may not be entered at all.
ReachIf(runs, ps) == IF runs THEN DefragmentReach(ps) ELSE {DOMAIN ps}

\* TerrainMemoryAllocator::defragment: returns at once when
\* enableAutoDefragmentation is off, else runs the pools' passes.
defragmentRuns(cfg) == cfg.enableAutoDefragmentation
defragmentPools(ps, as, cfg, P) ==
    IF ~defragmentRuns(cfg) THEN ps
    ELSE [t \in DOMAIN ps |-> IF t \in P THEN defragment(ps[t], t, as) ELSE ps[t]]
defragmentEvents(cfg) ==
    <<"defragment">> \o (IF defragmentRuns(cfg) THEN <<"defragmentPass">> ELSE <<>>)

\* handleMemoryPressure: garbageCollect, then defragment(50).
handleMemoryPressurePools(ps, as, cfg, P) == defragmentPools(garbageCollect(ps, as), as, cfg, P)
handleMemoryPressureEvents(cfg) == <<"garbageCollect">> \o defragmentEvents(cfg)

notifyMemoryPressure(cbs) == IF cbs.memoryPressure THEN <<"memoryPressureCallback">> ELSE <<>>
notifyAllocationFailed(cbs) == IF cbs.allocationFailed THEN <<"allocationFailedCallback">> ELSE <<>>

\* checkMemoryPressure
checkMemoryPressurePools(ps, as, cfg, P) ==
    IF UsageAbove(ps, cfg, CriticalThresholdPct)
    THEN handleMemoryPressurePools(ps, as, cfg, P) ELSE ps
checkMemoryPressureEvents(ps, cfg, cbs) ==
    <<"checkMemoryPressure">>
    \o (IF UsageAbove(ps, cfg, CriticalThresholdPct)
        THEN handleMemoryPressureEvents(cfg) \o notifyMemoryPressure(cbs)
        ELSE IF UsageAbove(ps, cfg, WarningThresholdPct)
        THEN notifyMemoryPressure(cbs) ELSE <<>>)
    \o <<"checkMemoryPressureReturns">>

\* What the allocator does once the pool has answered an allocate call.
afterAllocateEvents(result, ps, cfg, cbs) ==
    IF result # "VK_SUCCESS"
    THEN notifyAllocationFailed(cbs)
    ELSE <<"updateGlobalStats">> \o checkMemoryPressureEvents(ps, cfg, cbs)

\* initialize(config)
Initialize(cfg) ==
    /\ alive
    /\ IF m_initialized
       THEN /\ events' = <<>>
            /\ UNCHANGED <<pools, config, m_initialized, m_backgroundThreadRunning>>
       ELSE /\ config' = cfg
            /\ pools' = [t \in PoolTypes |-> NewPool]
            /\ m_backgroundThreadRunning' = TRUE
            /\ m_initialized' = TRUE
            /\ events' = <<>>
    /\ UNCHANGED lastAlloc
    /\ UNCHANGED <<allocs, alive, callbacks, m_stats>>

\* destroy(): the worker is stopped and joined, the pools are destroyed.
DestroyAllocator ==
    /\ alive
    /\ m_initialized
    /\ m_backgroundThreadRunning' = FALSE
    /\ pools' = [t \in {} |-> NewPool]
    /\ m_initialized' = FALSE
    /\ events' = <<>>
    /\ UNCHANGED lastAlloc
    /\ UNCHANGED <<allocs, alive, config, callbacks, m_stats>>

\* allocateBuffer / allocateImage(…, type, allocation)
AllocatorAllocate(type, kind, size) ==
    /\ alive
    /\ Len(allocs) < MaxAllocations
    /\ IF type \notin DOMAIN pools
       THEN /\ events' = <<"allocate">> \o notifyAllocationFailed(callbacks)
            /\ UNCHANGED lastAlloc
            /\ UNCHANGED <<pools, allocs, m_stats>>
       ELSE \E cr \in (IF pools[type].vmaPool THEN {"VK_SUCCESS"} ELSE VkResults) :
            \E vr \in VmaCreateResults(allocs, type, size) :
              LET id == Len(allocs) + 1
                  r == IF kind = "buffer"
                       THEN allocateBuffer(pools[type], type, size, cr, vr, id)
                       ELSE allocateImage(pools[type], type, size, cr, vr, id)
                  ps == [pools EXCEPT ![type] = r.pool]
                  as == Append1(allocs, r.made)
                  checks == r.result = "VK_SUCCESS"
                  runs == checks /\ UsageAbove(ps, config, CriticalThresholdPct)
                          /\ defragmentRuns(config)
              IN  \E P \in ReachIf(runs, pools) :
                  /\ allocs' = as
                  /\ pools' = IF checks THEN checkMemoryPressurePools(ps, as, config, P) ELSE ps
                  /\ m_stats' = IF checks THEN updateGlobalStats(pools') ELSE m_stats
                  /\ events' = <<"allocate", "pool.allocate">>
                               \o afterAllocateEvents(r.result, ps, config, callbacks)
                  /\ UNCHANGED lastAlloc
    /\ UNCHANGED <<alive, config, callbacks, m_initialized, m_backgroundThreadRunning>>

\* The pool deallocate hands an allocation to: getPool(allocation->type).
\* (FirstPool: one pool for every allocation, for comparison.)
FirstPool(a) == "VertexBuffer"
PoolOf(a) == a.type

\* deallocate(allocation): through the pool of the allocation's type.
AllocatorDeallocate(id) ==
    /\ alive
    /\ id \in Ids(allocs) /\ allocs[id].referenced
    /\ allocs[id].destroyed < MaxDeallocates
    /\ UNCHANGED lastAlloc
    /\ IF PoolOf(allocs[id]) \notin DOMAIN pools
       THEN /\ events' = <<>>
            /\ UNCHANGED <<pools, allocs, alive, m_stats>>
       ELSE \E o \in DoubleFreeOutcomes :
            /\ allocs[id].destroyed = 0 => o = "returns"
            /\ IF o = "crashes"
               THEN /\ alive' = FALSE
                    /\ events' = <<>>
                    /\ UNCHANGED <<pools, allocs, m_stats>>
               ELSE /\ pools' = [pools EXCEPT ![PoolOf(allocs[id])] = deallocate(@, allocs[id], id)]
                    /\ allocs' = [allocs EXCEPT ![id].destroyed = @ + 1]
                    /\ m_stats' = updateGlobalStats(pools')
                    /\ events' = <<>>
                    /\ UNCHANGED alive
    /\ UNCHANGED <<config, callbacks, m_initialized, m_backgroundThreadRunning>>

\* garbageCollect(), called from outside.
GarbageCollect ==
    /\ alive
    /\ pools' = garbageCollect(pools, allocs)
    /\ m_stats' = updateGlobalStats(pools')
    /\ events' = <<"garbageCollect">>
    /\ UNCHANGED lastAlloc
    /\ UNCHANGED <<allocs, alive, config, callbacks, m_initialized, m_backgroundThreadRunning>>

\* handleMemoryPressure(), called from outside.
HandleMemoryPressure ==
    /\ alive
    /\ \E P \in ReachIf(defragmentRuns(config), pools) :
         pools' = handleMemoryPressurePools(pools, allocs, config, P)
    /\ m_stats' = updateGlobalStats(pools')
    /\ events' = handleMemoryPressureEvents(config)
    /\ UNCHANGED lastAlloc
    /\ UNCHANGED <<allocs, alive, config, callbacks, m_initialized, m_backgroundThreadRunning>>

\* One round of backgroundWorker: garbageCollect, the periodic defragment
\* (every 5 s, and only above the fragmentation threshold), checkMemoryPressure.
BackgroundTick ==
    /\ alive
    /\ m_backgroundThreadRunning
    /\ LET p1 == garbageCollect(pools, allocs)
           s1 == updateGlobalStats(p1)
           periodic == s1.fragmentation > DefragmentationThresholdPct
       IN  \E due \in (IF periodic THEN BOOLEAN ELSE {FALSE}) :
           \E P \in ReachIf(due /\ defragmentRuns(config), pools) :
             LET p2 == IF due THEN defragmentPools(p1, allocs, config, P) ELSE p1
                 critical == UsageAbove(p2, config, CriticalThresholdPct)
             IN  \E Q \in ReachIf(critical /\ defragmentRuns(config), pools) :
                 /\ pools' = checkMemoryPressurePools(p2, allocs, config, Q)
                 /\ m_stats' = updateGlobalStats(pools')
                 /\ events' = <<"backgroundWorker", "garbageCollect">>
                              \o (IF due THEN defragmentEvents(config) ELSE <<>>)
                              \o checkMemoryPressureEvents(p2, config, callbacks)
    /\ UNCHANGED lastAlloc
    /\ UNCHANGED <<allocs, alive, config, callbacks, m_initialized, m_backgroundThreadRunning>>

\* setMemoryPressureCallback / setAllocationFailedCallback
SetCallbacks(cbs) ==
    /\ alive
    /\ callbacks # cbs
    /\ callbacks' = cbs
    /\ events' = <<>>
    /\ UNCHANGED lastAlloc
    /\ UNCHANGED <<pools, allocs, alive, config, m_stats, m_initialized, m_backgroundThreadRunning>>

\* The caller lets go of its shared_ptr to an allocation.
AllocatorDropAllocation(id) ==
    /\ alive
    /\ id \in Ids(allocs) /\ allocs[id].referenced
    /\ allocs' = [allocs EXCEPT ![id].referenced = FALSE]
    /\ events' = <<>>
    /\ UNCHANGED <<pools, alive, lastAlloc, config, callbacks, m_stats,
                   m_initialized, m_backgroundThreadRunning>>

-----------------------------------------------------------------------------
(***************************************************************************)
(* TerrainRenderer: the loading queue, the loader threads, the streaming   *)
(* thread, the frame, and shutdown                                         *)
(***************************************************************************)

NumLoaders == 2
MaxEntries == 2
MaxAge == 1

Loaders == 1..NumLoaders
EntryIds == 1..MaxEntries
Datasets == {"ds"}

\* updateTileStates evicts a tile whose framesSinceAccess is above this.
AgingThreshold == 300

Elems(s) == {s[i] : i \in 1..Len(s)}

\* Every way of listing some of the coordinates, each at most once: the
\* candidateTiles of a frame.
RECURSIVE Listings(_)
Listings(S) ==
    {<<>>} \cup UNION {{<<c>> \o l : l \in Listings(S \ {c})} : c \in S}

\* No TerrainTile object (yet) under this id.
NoTile == [coord |-> 0, state |-> "none", framesSinceAccess |-> 0, gpuValid |-> FALSE]

\* A TerrainTile as its constructor leaves it.
FreshTile(c) == [coord |-> c, state |-> "Empty", framesSinceAccess |-> 0, gpuValid |-> FALSE]

\* A TerrainTile whose destructor has run.
DestroyedTile(t) == [t EXCEPT !.state = "destroyed", !.framesSinceAccess = 0, !.gpuValid = FALSE]

\* loadData on a tile object
TileLoadData(t, r) ==
    IF ~LoadDataGuard(t.state) THEN t
    ELSE [t EXCEPT !.state = IF r = "VK_SUCCESS" THEN "Loaded" ELSE "Error"]

\* uploadToGPU on a tile object whose CPU data loadData has filled
TileUploadToGPU(t, vs, hs) ==
    IF ~UploadGuard(t.state) THEN t
    ELSE LET vb == createVertexBuffer(TRUE, NullGPU, vs)
             ht == createHeightTexture(TRUE, vb.gpu, hs)
         IN  [t EXCEPT !.state = IF vb.ok /\ ht.ok THEN "Ready" ELSE "Error",
                       !.gpuValid = IsValid(IF vb.ok THEN ht.gpu ELSE vb.gpu)]

\* evictFromMemory on a tile object, where the nested lock goes through
TileEvict(t) == [t EXCEPT !.state = EvictState(UnloadState(t.state)), !.gpuValid = FALSE]

\* TerrainTile::render: refuses a tile without GPU resources, else markAccessed and draw
TileRender(t) ==
    IF ~t.gpuValid THEN [ret |-> "VK_ERROR_INITIALIZATION_FAILED", tile |-> t]
    ELSE [ret |-> "VK_SUCCESS", tile |-> [t EXCEPT !.framesSinceAccess = 0]]

\* The ids no queue entry has been given yet.
UnusedIds == {id \in EntryIds : takes[id] = <<>> /\ \A i \in 1..Len(m_loadingQueue) : m_loadingQueue[i].id # id}

\* scheduleLoading for each coordinate of cs in turn; every entry gets the
\* next unused id.
RECURSIVE Schedule(_, _, _)
Schedule(q, cs, free) ==
    IF cs = <<>> THEN q
    ELSE LET id == CHOOSE i \in free : \A j \in free : i <= j
         IN  Schedule(Append(q, [id |-> id, coord |-> Head(cs)]), Tail(cs), free \ {id})

\* Taking the front entry off the queue: front() then pop().
\* (DequeueKeep: front() without pop(), for comparison.)
DequeueKeep(q) == q
Dequeue(q) == Tail(q)

\* The tile objects the map points to.
Mapped(tiles) == {tiles[c] : c \in DOMAIN tiles}

Running == main # "terminated"

IdleLoader == [pc |-> "top", item |-> 0]
NoLoader == [pc |-> "notStarted", item |-> 0]

\* (LocksMapThroughout: a worker that takes m_tilesMutex for the whole
\* iteration, for comparison.)
LocksMapThroughout(step) == TRUE
\* The steps of a tileLoadingWorker iteration that run under m_tilesMutex:
\* the lock_guard is taken in the block that assigns m_tiles[coord] only.
LocksMap(step) == step = "publish"
MapMutexFor(step) == LocksMap(step) => m_tilesMutex = "free"

\* tileLoadingWorker, from the loop test to the pop under m_loadingQueueMutex
\* and make_shared<TerrainTile>(coord).
LoaderTake(th) ==
    /\ Running /\ loader[th].pc = "top" /\ m_threadsRunning
    /\ m_loadingQueue # <<>>
    /\ LET e == Head(m_loadingQueue)
       IN  /\ loader' = [loader EXCEPT ![th] = [pc |-> "loadData", item |-> e.id]]
           /\ tileObjs' = [tileObjs EXCEPT ![e.id] = FreshTile(e.coord)]
           /\ takes' = [takes EXCEPT ![e.id] = Append(@, th)]
    /\ m_loadingQueue' = Dequeue(m_loadingQueue)
    /\ UNCHANGED <<rendererInitialized, m_activeDataset, m_datasets, m_threadsRunning, rendererTiles,
                   m_tilesMutex, streaming, main, visibleTiles, frame>>

\* tileLoadingWorker: the loop test fails and the thread function returns.
LoaderExit(th) ==
    /\ Running /\ loader[th].pc = "top" /\ ~m_threadsRunning
    /\ loader' = [loader EXCEPT ![th].pc = "exited"]
    /\ UNCHANGED <<rendererInitialized, m_activeDataset, m_datasets, m_threadsRunning, m_loadingQueue,
                   tileObjs, rendererTiles, m_tilesMutex, streaming, main, visibleTiles,
                   frame, takes>>

\* tileLoadingWorker: the path is read as m_datasets[coord.datasetId].path,
\* which makes an entry where there is none; then tile->loadData(dataPath)
LoaderLoadData(th) ==
    /\ Running /\ loader[th].pc = "loadData" /\ MapMutexFor("loadData")
    /\ \E r \in LoadFromDiskResults :
         LET id == loader[th].item
             t == TileLoadData(tileObjs[id], r)
         IN  /\ tileObjs' = [tileObjs EXCEPT ![id] = t]
             /\ loader' = [loader EXCEPT ![th].pc =
                              IF t.state = "Loaded" THEN "uploadToGPU" ELSE "release"]
             /\ m_datasets' = m_datasets \cup {tileObjs[id].coord.datasetId}
    /\ UNCHANGED <<rendererInitialized, m_activeDataset, m_threadsRunning, m_loadingQueue,
                   rendererTiles, m_tilesMutex, streaming, main, visibleTiles, frame, takes>>

\* tileLoadingWorker: tile->uploadToGPU()
LoaderUpload(th) ==
    /\ Running /\ loader[th].pc = "uploadToGPU" /\ MapMutexFor("uploadToGPU")
    /\ \E vs \in VertexBufferSteps, hs \in HeightTextureSteps :
         LET id == loader[th].item
             t == TileUploadToGPU(tileObjs[id], vs, hs)
         IN  /\ tileObjs' = [tileObjs EXCEPT ![id] = t]
             /\ loader' = [loader EXCEPT ![th].pc =
                              IF t.state = "Ready" THEN "publish" ELSE "release"]
    /\ UNCHANGED <<rendererInitialized, m_activeDataset, m_datasets, m_threadsRunning, m_loadingQueue,
                   rendererTiles, m_tilesMutex, streaming, main, visibleTiles, frame, takes>>

\* tileLoadingWorker: m_tiles[coord] = tile under m_tilesMutex, then the end
\* of the iteration.  A tile object the map held for the coordinate loses its
\* reference; if the frame does not hold it either it is destroyed here, and
\* ~TerrainTile calls evictFromMemory with its nested lock.
LoaderPublish(th) ==
    /\ Running /\ loader[th].pc = "publish" /\ MapMutexFor("publish")
    /\ LET id == loader[th].item
           c == tileObjs[id].coord
           old == IF c \in DOMAIN rendererTiles THEN rendererTiles[c] ELSE 0
           dies == old # 0 /\ old # id /\ old \notin Elems(visibleTiles)
       IN  /\ rendererTiles' = With(rendererTiles, c, id)
           /\ \E o \in RelockOutcomes :
                /\ ~dies => o = "proceeds"
                /\ CASE o = "proceeds" ->
                          /\ tileObjs' = IF dies THEN [tileObjs EXCEPT ![old] = DestroyedTile(@)]
                                         ELSE tileObjs
                          /\ loader' = [loader EXCEPT ![th] = IdleLoader]
                          /\ UNCHANGED <<m_tilesMutex, main>>
                     [] o = "blocks" ->
                          /\ loader' = [loader EXCEPT ![th].pc = "blocked"]
                          /\ m_tilesMutex' = "stuck"
                          /\ UNCHANGED <<tileObjs, main>>
                     [] o = "throws" ->
                          /\ main' = "terminated"
                          /\ UNCHANGED <<tileObjs, loader, m_tilesMutex>>
    /\ UNCHANGED <<rendererInitialized, m_activeDataset, m_datasets, m_threadsRunning, m_loadingQueue,
                   streaming, visibleTiles, frame, takes>>

\* tileLoadingWorker: the end of an iteration whose load or upload failed.
\* The local shared_ptr is the only reference, so the tile is destroyed.
LoaderRelease(th) ==
    /\ Running /\ loader[th].pc = "release"
    /\ LET id == loader[th].item
       IN  \E o \in RelockOutcomes :
             CASE o = "proceeds" ->
                    /\ tileObjs' = [tileObjs EXCEPT ![id] = DestroyedTile(@)]
                    /\ loader' = [loader EXCEPT ![th] = IdleLoader]
                    /\ UNCHANGED main
               [] o = "blocks" ->
                    /\ loader' = [loader EXCEPT ![th].pc = "blocked"]
                    /\ UNCHANGED <<tileObjs, main>>
               [] o = "throws" ->
                    /\ main' = "terminated"
                    /\ UNCHANGED <<tileObjs, loader>>
    /\ UNCHANGED <<rendererInitialized, m_activeDataset, m_datasets, m_threadsRunning, m_loadingQueue,
                   rendererTiles, m_tilesMutex, streaming, visibleTiles, frame, takes>>

\* updateTileStates, under m_tilesMutex: every tile of the map gets
\* incrementFrameCounter, and evictFromMemory when its framesSinceAccess is
\* then above the threshold.  The pass runs to its end ("done"), or the nested
\* lock of one evictFromMemory stops it at a tile s; the tiles in B came before
\* s in the map's iteration order.  The counter is kept up to
\* AgingThreshold + 2: the code only ever compares it with the threshold.
updateTileStates(objs, tiles) ==
    LET ids == Mapped(tiles)
        Inc(id) == [objs[id] EXCEPT !.framesSinceAccess =
                                       IF @ > AgingThreshold + 1 THEN @ ELSE @ + 1]
        Over(id) == Inc(id).framesSinceAccess > AgingThreshold
        Aged(id) == IF Over(id) THEN TileEvict(Inc(id)) ELSE Inc(id)
    IN  {[objs |-> [id \in DOMAIN objs |-> IF id \in ids THEN Aged(id) ELSE objs[id]],
          how |-> "done"]}
        \cup UNION {
          {[objs |-> [id \in DOMAIN objs |->
                        IF id \in B THEN Aged(id) ELSE IF id = s THEN Inc(id) ELSE objs[id]],
            how |-> o] : B \in SUBSET (ids \ {s}), o \in RelockOutcomes \ {"proceeds"}}
          : s \in {i \in ids : Over(i)}}

\* No tile of the map has been aged cap times yet (cap bounds the counters).
AgeBelow(cap) == \A id \in Mapped(rendererTiles) : tileObjs[id].framesSinceAccess < cap

\* streamingWorker: one turn of the loop.  An exception leaving the thread
\* function ends the process.
StreamingPass(cap) ==
    /\ Running /\ streaming = "running" /\ m_threadsRunning /\ m_tilesMutex = "free"
    /\ rendererTiles # <<>>
    /\ AgeBelow(cap)
    /\ \E out \in updateTileStates(tileObjs, rendererTiles) :
         /\ tileObjs' = out.objs
         /\ streaming' = IF out.how = "blocks" THEN "blocked" ELSE streaming
         /\ m_tilesMutex' = IF out.how = "blocks" THEN "stuck" ELSE m_tilesMutex
         /\ main' = IF out.how = "throws" THEN "terminated" ELSE main
    /\ UNCHANGED <<rendererInitialized, m_activeDataset, m_datasets, m_threadsRunning, m_loadingQueue,
                   rendererTiles, loader, visibleTiles, frame, takes>>

\* updateTileStates in two steps, to show m_tilesMutex held during the pass:
\* the lock_guard is taken, then the pass runs and the guard is released.
StreamingLock(cap) ==
    /\ Running /\ streaming = "running" /\ m_threadsRunning /\ m_tilesMutex = "free"
    /\ AgeBelow(cap)
    /\ streaming' = "updateTileStates"
    /\ m_tilesMutex' = "updateTileStates"
    /\ UNCHANGED <<rendererInitialized, m_activeDataset, m_datasets, m_threadsRunning, m_loadingQueue,
                   tileObjs, rendererTiles, loader, main, visibleTiles, frame, takes>>
StreamingPassLocked ==
    /\ Running /\ streaming = "updateTileStates"
    /\ \E out \in updateTileStates(tileObjs, rendererTiles) :
         /\ tileObjs' = out.objs
         /\ streaming' = IF out.how = "blocks" THEN "blocked" ELSE "running"
         /\ m_tilesMutex' = IF out.how = "blocks" THEN "stuck" ELSE "free"
         /\ main' = IF out.how = "throws" THEN "terminated" ELSE main
    /\ UNCHANGED <<rendererInitialized, m_activeDataset, m_datasets, m_threadsRunning, m_loadingQueue,
                   rendererTiles, loader, visibleTiles, frame, takes>>

\* getTile called by the application between frames, in two steps: the
\* lock_guard is taken, then the lookup returns and the guard is released.
GetTileLock ==
    /\ Running /\ main = "idle" /\ m_tilesMutex = "free"
    /\ main' = "getTile"
    /\ m_tilesMutex' = "getTile"
    /\ UNCHANGED <<rendererInitialized, m_activeDataset, m_datasets, m_threadsRunning, m_loadingQueue,
                   tileObjs, rendererTiles, loader, streaming, visibleTiles, frame, takes>>
GetTileReturn ==
    /\ main = "getTile"
    /\ main' = "idle"
    /\ m_tilesMutex' = "free"
    /\ UNCHANGED <<rendererInitialized, m_activeDataset, m_datasets, m_threadsRunning, m_loadingQueue,
                   tileObjs, rendererTiles, loader, streaming, visibleTiles, frame, takes>>

\* streamingWorker: the loop test fails and the thread function returns.
StreamingExit ==
    /\ Running /\ streaming = "running" /\ ~m_threadsRunning
    /\ streaming' = "exited"
    /\ UNCHANGED <<rendererInitialized, m_activeDataset, m_datasets, m_threadsRunning, m_loadingQueue,
                   tileObjs, rendererTiles, m_tilesMutex, loader, main, visibleTiles,
                   frame, takes>>

\* What the pipeline, uniform-buffer and descriptor-set creation of
\* initialize come to.
InitializeResults == {"VK_SUCCESS", "VK_ERROR_INITIALIZATION_FAILED"}

\* TerrainRenderer::initialize, with startBackgroundThreads; started are the
\* max(1, hardware_concurrency / 4) loader threads this machine gets.
RendererInitializeAs(started, r) ==
    /\ main = "idle" /\ ~rendererInitialized
    /\ IF r = "VK_SUCCESS"
       THEN /\ m_threadsRunning' = TRUE
            /\ loader' = [th \in Loaders |-> IF th \in started THEN IdleLoader ELSE NoLoader]
            /\ streaming' = "running"
            /\ rendererInitialized' = TRUE
       ELSE UNCHANGED <<m_threadsRunning, loader, streaming, rendererInitialized>>
    /\ UNCHANGED <<m_activeDataset, m_datasets, m_loadingQueue, tileObjs, rendererTiles,
                   m_tilesMutex, main, visibleTiles, frame, takes>>
RendererInitialize(started) == \E r \in InitializeResults : RendererInitializeAs(started, r)

\* TerrainRenderer::loadDataset: m_datasets[datasetId] is assigned, and the
\* first dataset loaded becomes the active one.
LoadDataset(d) ==
    /\ main = "idle"
    /\ m_datasets' = m_datasets \cup {d}
    /\ m_activeDataset' = IF m_activeDataset = "" THEN d ELSE m_activeDataset
    /\ UNCHANGED <<rendererInitialized, m_threadsRunning, m_loadingQueue, tileObjs,
                   rendererTiles, m_tilesMutex, loader, streaming, main, visibleTiles,
                   frame, takes>>

\* TerrainRenderer::unloadDataset.  For an id the table holds: under
\* m_tilesMutex every tile of the dataset is erased from the map (a tile
\* object the frame does not hold is destroyed there), the table entry is
\* erased, and an active dataset that was this one becomes "" or the first
\* key of the unordered table, whichever that is.
UnloadDataset(d) ==
    /\ main = "idle"
    /\ IF d \notin m_datasets
       THEN UNCHANGED <<m_datasets, m_activeDataset, rendererTiles, tileObjs, m_tilesMutex, main>>
       ELSE IF m_tilesMutex = "stuck"
       THEN /\ main' = "blocked"
            /\ UNCHANGED <<m_datasets, m_activeDataset, rendererTiles, tileObjs, m_tilesMutex>>
       ELSE LET gone == {c \in DOMAIN rendererTiles : c.datasetId = d}
                dies == {rendererTiles[c] : c \in gone} \ Elems(visibleTiles)
                rest == m_datasets \ {d}
            IN  \E o \in RelockOutcomes :
                  /\ dies = {} => o = "proceeds"
                  /\ CASE o = "proceeds" ->
                            /\ rendererTiles' = [c \in DOMAIN rendererTiles \ gone |-> rendererTiles[c]]
                            /\ tileObjs' = [id \in DOMAIN tileObjs |->
                                  IF id \in dies THEN DestroyedTile(tileObjs[id]) ELSE tileObjs[id]]
                            /\ m_datasets' = rest
                            /\ m_activeDataset' \in
                                  IF m_activeDataset # d THEN {m_activeDataset}
                                  ELSE IF rest = {} THEN {""} ELSE rest
                            /\ UNCHANGED <<m_tilesMutex, main>>
                       [] o = "blocks" ->
                            /\ main' = "blocked"
                            /\ m_tilesMutex' = "stuck"
                            /\ UNCHANGED <<m_datasets, m_activeDataset, rendererTiles, tileObjs>>
                       [] o = "throws" ->
                            /\ main' = "terminated"
                            /\ UNCHANGED <<m_datasets, m_activeDataset, rendererTiles, tileObjs,
                                           m_tilesMutex>>
    /\ UNCHANGED <<rendererInitialized, m_threadsRunning, m_loadingQueue, loader, streaming,
                   visibleTiles, frame, takes>>

\* TerrainRenderer::setActiveDataset: only an id the table holds is taken.
SetActiveDataset(d) ==
    /\ main = "idle"
    /\ m_activeDataset' = IF d \in m_datasets THEN d ELSE m_activeDataset
    /\ UNCHANGED <<rendererInitialized, m_datasets, m_threadsRunning, m_loadingQueue, tileObjs,
                   rendererTiles, m_tilesMutex, loader, streaming, main, visibleTiles,
                   frame, takes>>

NoFrame == [tiles |-> <<>>, ret |-> "none"]

\* render up to the end of performCulling, for the candidates cands.
\* visibleTiles.clear() drops the last frame's references; a tile object the
\* map no longer holds is destroyed there.  Then every candidate is looked up
\* (getTile, under m_tilesMutex): a Ready tile is visible, a coordinate
\* without a tile is scheduled for loading.  The dataset is read as
\* m_datasets[m_activeDataset], which makes an entry where there is none.
RenderCull(cands) ==
    /\ main = "idle" /\ rendererInitialized /\ m_activeDataset # ""
    /\ LET dies == Elems(visibleTiles) \ Mapped(rendererTiles)
           missing == SelectSeq(cands, LAMBDA c : c \notin DOMAIN rendererTiles)
           ready == SelectSeq(cands, LAMBDA c : c \in DOMAIN rendererTiles
                                                /\ tileObjs[rendererTiles[c]].state = "Ready")
       IN  /\ Len(missing) <= Cardinality(UnusedIds)
           /\ \E o \in RelockOutcomes :
                /\ dies = {} => o = "proceeds"
                /\ CASE o = "blocks" ->
                          /\ main' = "blocked"
                          /\ visibleTiles' = <<>>
                          /\ UNCHANGED <<tileObjs, m_loadingQueue, frame>>
                     [] o = "throws" ->
                          /\ main' = "terminated"
                          /\ visibleTiles' = <<>>
                          /\ UNCHANGED <<tileObjs, m_loadingQueue, frame>>
                     [] o = "proceeds" /\ cands # <<>> /\ m_tilesMutex = "stuck" ->
                          /\ main' = "blocked"
                          /\ visibleTiles' = <<>>
                          /\ tileObjs' = [id \in DOMAIN tileObjs |->
                                IF id \in dies THEN DestroyedTile(tileObjs[id]) ELSE tileObjs[id]]
                          /\ UNCHANGED <<m_loadingQueue, frame>>
                     [] OTHER ->
                          /\ main' = "updateTileStreaming"
                          /\ tileObjs' = [id \in DOMAIN tileObjs |->
                                IF id \in dies THEN DestroyedTile(tileObjs[id]) ELSE tileObjs[id]]
                          /\ visibleTiles' = [i \in 1..Len(ready) |-> rendererTiles[ready[i]]]
                          /\ m_loadingQueue' = Schedule(m_loadingQueue, missing, UnusedIds)
                          /\ frame' = [tiles |-> <<>>, ret |-> "pending"]
                /\ m_datasets' = IF o = "proceeds" THEN m_datasets \cup {m_activeDataset}
                                 ELSE m_datasets
    /\ UNCHANGED <<rendererInitialized, m_activeDataset, m_threadsRunning, rendererTiles,
                   m_tilesMutex, loader, streaming, takes>>

\* render: updateTileStreaming, that is updateTileStates on the calling
\* thread.  An exception leaves render with the lock released.
RenderUpdateTileStreaming(cap) ==
    /\ main = "updateTileStreaming"
    /\ AgeBelow(cap)
    /\ IF m_tilesMutex = "stuck"
       THEN /\ main' = "blocked"
            /\ UNCHANGED <<tileObjs, m_tilesMutex, frame>>
       ELSE \E out \in updateTileStates(tileObjs, rendererTiles) :
              /\ tileObjs' = out.objs
              /\ m_tilesMutex' = IF out.how = "blocks" THEN "stuck" ELSE m_tilesMutex
              /\ main' = CASE out.how = "done" -> "renderTiles"
                           [] out.how = "blocks" -> "blocked"
                           [] out.how = "throws" -> "idle"
              /\ frame' = IF out.how = "throws" THEN [frame EXCEPT !.ret = "std::system_error"]
                          ELSE frame
    /\ UNCHANGED <<rendererInitialized, m_activeDataset, m_datasets, m_threadsRunning, m_loadingQueue,
                   rendererTiles, loader, streaming, visibleTiles, takes>>

\* The visible tile renderTiles has come to.
CurrentTile == visibleTiles[Len(frame.tiles) + 1]

\* renderTiles: the test of one visible tile, if (!tile->hasValidGPUResources()) continue
RenderTilesCheck ==
    /\ main = "renderTiles" /\ Len(frame.tiles) < Len(visibleTiles)
    /\ IF tileObjs[CurrentTile].gpuValid
       THEN /\ main' = "tile->render"
            /\ UNCHANGED frame
       ELSE /\ frame' = [frame EXCEPT !.tiles = Append(@, "skipped: no GPU resources")]
            /\ UNCHANGED main
    /\ UNCHANGED <<rendererInitialized, m_activeDataset, m_datasets, m_threadsRunning, m_loadingQueue,
                   tileObjs, rendererTiles, m_tilesMutex, loader, streaming, visibleTiles, takes>>

\* Where renderTiles goes after tile->render returned r: on to the next tile,
\* whatever r is.
\* (AbortOnError: a loop that leaves the frame at the first failure, for comparison.)
AbortOnError(r) == IF r = "VK_SUCCESS" THEN "renderTiles" ELSE "idle"
AfterTileRender(r) == "renderTiles"

\* renderTiles: tile->render for that tile; an error moves on to the next tile.
RenderTilesDraw ==
    /\ main = "tile->render"
    /\ LET r == TileRender(tileObjs[CurrentTile])
       IN  /\ tileObjs' = [tileObjs EXCEPT ![CurrentTile] = r.tile]
           /\ frame' = [frame EXCEPT !.tiles = Append(@, IF r.ret = "VK_SUCCESS" THEN "drawn"
                                                         ELSE "skipped: render failed")]
           /\ main' = AfterTileRender(r.ret)
    /\ UNCHANGED <<rendererInitialized, m_activeDataset, m_datasets, m_threadsRunning, m_loadingQueue,
                   rendererTiles, m_tilesMutex, loader, streaming, visibleTiles, takes>>

\* TerrainTile::render in its steps, to show what another thread can do
\* inside it (no lock is taken): the test of hasValidGPUResources, ...
RenderTileEnter ==
    /\ main = "tile->render"
    /\ IF tileObjs[CurrentTile].gpuValid
       THEN /\ main' = "markAccessed"
            /\ UNCHANGED frame
       ELSE /\ frame' = [frame EXCEPT !.tiles = Append(@, "skipped: render failed")]
            /\ main' = AfterTileRender("VK_ERROR_INITIALIZATION_FAILED")
    /\ UNCHANGED <<rendererInitialized, m_activeDataset, m_datasets, m_threadsRunning, m_loadingQueue,
                   tileObjs, rendererTiles, m_tilesMutex, loader, streaming, visibleTiles,
                   takes>>
\* ... markAccessed, ...
RenderTileMarkAccessed ==
    /\ main = "markAccessed"
    /\ tileObjs' = [tileObjs EXCEPT ![CurrentTile].framesSinceAccess = 0]
    /\ main' = "vkCmdDraw"
    /\ UNCHANGED <<rendererInitialized, m_activeDataset, m_datasets, m_threadsRunning, m_loadingQueue,
                   rendererTiles, m_tilesMutex, loader, streaming, visibleTiles, frame, takes>>
\* ... then vkCmdBindVertexBuffers, vkCmdBindDescriptorSets and vkCmdDraw with
\* the handles in m_gpuResources.
RenderTileDraw ==
    /\ main = "vkCmdDraw"
    /\ frame' = [frame EXCEPT !.tiles = Append(@, "drawn")]
    /\ main' = AfterTileRender("VK_SUCCESS")
    /\ UNCHANGED <<rendererInitialized, m_activeDataset, m_datasets, m_threadsRunning, m_loadingQueue,
                   tileObjs, rendererTiles, m_tilesMutex, loader, streaming, visibleTiles, takes>>

\* unloadFromGPU called on a tile of the map by a thread that holds a
\* reference to it: lock, destroy, Ready -> Loaded, unlock.
TileUnload(t) == [t EXCEPT !.state = UnloadState(t.state), !.gpuValid = FALSE]
UnloadTileFromGPU(id) ==
    /\ Running /\ id \in Mapped(rendererTiles) /\ tileObjs[id].gpuValid
    /\ tileObjs' = [tileObjs EXCEPT ![id] = TileUnload(@)]
    /\ UNCHANGED <<rendererInitialized, m_activeDataset, m_datasets, m_threadsRunning, m_loadingQueue,
                   rendererTiles, m_tilesMutex, loader, streaming, main, visibleTiles, frame,
                   takes>>

\* renderTiles returns after the last visible tile, and render with it.
RenderTilesReturn ==
    /\ main = "renderTiles" /\ Len(frame.tiles) = Len(visibleTiles)
    /\ frame' = [frame EXCEPT !.ret = "VK_SUCCESS"]
    /\ main' = "idle"
    /\ UNCHANGED <<rendererInitialized, m_activeDataset, m_datasets, m_threadsRunning, m_loadingQueue,
                   tileObjs, rendererTiles, m_tilesMutex, loader, streaming, visibleTiles, takes>>

\* destroy up to the first join: stopBackgroundThreads clears m_threadsRunning.
DestroyBegin ==
    /\ main = "idle" /\ rendererInitialized
    /\ m_threadsRunning' = FALSE
    /\ main' = "joinLoaders"
    /\ UNCHANGED <<rendererInitialized, m_activeDataset, m_datasets, m_loadingQueue, tileObjs,
                   rendererTiles, m_tilesMutex, loader, streaming, visibleTiles, frame, takes>>

\* stopBackgroundThreads: every loader thread is joined, m_loadingThreads.clear()
DestroyJoinLoaders ==
    /\ main = "joinLoaders"
    /\ \A th \in Loaders : loader[th].pc \in {"exited", "notStarted"}
    /\ loader' = [th \in Loaders |-> NoLoader]
    /\ main' = "joinStreaming"
    /\ UNCHANGED <<rendererInitialized, m_activeDataset, m_datasets, m_threadsRunning, m_loadingQueue,
                   tileObjs, rendererTiles, m_tilesMutex, streaming, visibleTiles, frame, takes>>

\* stopBackgroundThreads joins the streaming thread; destroy then clears the
\* dataset table and the map, destroying every tile object the frame does not
\* hold, and returns.  m_activeDataset is not among what it resets.
DestroyJoinStreaming ==
    /\ main = "joinStreaming" /\ streaming = "exited"
    /\ streaming' = "notStarted"
    /\ m_datasets' = {}
    /\ LET dies == Mapped(rendererTiles) \ Elems(visibleTiles)
       IN  \E o \in RelockOutcomes :
             /\ dies = {} => o = "proceeds"
             /\ CASE o = "proceeds" ->
                       /\ tileObjs' = [id \in DOMAIN tileObjs |->
                             IF id \in dies THEN DestroyedTile(tileObjs[id]) ELSE tileObjs[id]]
                       /\ rendererTiles' = <<>>
                       /\ rendererInitialized' = FALSE
                       /\ main' = "idle"
                  [] o = "blocks" ->
                       /\ main' = "blocked"
                       /\ UNCHANGED <<tileObjs, rendererTiles, rendererInitialized>>
                  [] o = "throws" ->
                       /\ main' = "terminated"
                       /\ UNCHANGED <<tileObjs, rendererTiles, rendererInitialized>>
    /\ UNCHANGED <<m_activeDataset, m_threadsRunning, m_loadingQueue, m_tilesMutex,
                   loader, visibleTiles, frame, takes>>

RendererInitState ==
    /\ rendererInitialized = FALSE
    /\ m_activeDataset = ""
    /\ m_datasets = {}
    /\ m_threadsRunning = FALSE
    /\ m_loadingQueue = <<>>
    /\ tileObjs = [id \in EntryIds |-> NoTile]
    /\ rendererTiles = <<>>
    /\ m_tilesMutex = "free"
    /\ loader = [th \in Loaders |-> NoLoader]
    /\ streaming = "notStarted"
    /\ main = "idle"
    /\ visibleTiles = <<>>
    /\ frame = NoFrame
    /\ takes = [id \in EntryIds |-> <<>>]

-----------------------------------------------------------------------------
(***************************************************************************)
(* Set-up: what TerrainRenderer::initialize creates step by step,          *)
(* updateConfig, and HeightfieldScene::load_heightfield                    *)
(***************************************************************************)

\* The steps of initialize that can fail, in the order they run.
InitializeSteps ==
    <<"m_tessellationPipeline", "m_wireframePipeline", "createUniformBuffers",
      "vkCreateDescriptorPool", "vkAllocateDescriptorSets">>
NoResources ==
    [m_tessellationPipeline |-> "null", m_wireframePipeline |-> "null",
     m_uniformBuffer |-> FALSE, m_descriptorPool |-> FALSE, m_descriptorSet |-> FALSE]

\* The members after initialize has run with step number failed failing
\* (0: none does).  A pipeline object is made before its initialize is
\* called, and stays in its unique_ptr when that fails; a failing step
\* returns at once, and what the steps before it made stays where it is.
AfterInitialize(failed) ==
        [m_tessellationPipeline |-> IF failed = 1 THEN "failed" ELSE "initialized",
         m_wireframePipeline |-> CASE failed = 1 -> rendererResources.m_wireframePipeline
                                   [] failed = 2 -> "failed"
                                   [] OTHER -> "initialized",
         m_uniformBuffer |-> IF failed \in {1, 2, 3} THEN rendererResources.m_uniformBuffer
                             ELSE TRUE,
         m_descriptorPool |-> IF failed \in {1, 2, 3, 4} THEN rendererResources.m_descriptorPool
                              ELSE TRUE,
         m_descriptorSet |-> IF failed = 0 THEN TRUE ELSE rendererResources.m_descriptorSet]

\* The stored state a rejected call must leave alone.
Stored == [rendererConfig |-> rendererConfig, scene |-> scene]
NoSetup == [op |-> "none", invalid |-> FALSE, result |-> "none", failed |-> 0,
            before |-> [rendererConfig |-> <<>>, scene |-> <<>>]]

\* TerrainRenderer::initialize(config): m_config is assigned first; then the
\* steps, each returning its error; then the threads and m_initialized.
InitializeRenderer(cfg, started, failed) ==
    /\ IF rendererInitialized
       THEN /\ failed = 0
            /\ UNCHANGED <<rndVars, rendererConfig, rendererResources>>
            /\ lastSetup' = [op |-> "initialize", invalid |-> cfg.tileSize = 0,
                             result |-> "VK_ERROR_INITIALIZATION_FAILED", failed |-> 0,
                             before |-> Stored]
       ELSE /\ RendererInitializeAs(started, IF failed = 0 THEN "VK_SUCCESS"
                                             ELSE "VK_ERROR_INITIALIZATION_FAILED")
            /\ rendererConfig' = cfg
            /\ rendererResources' = AfterInitialize(failed)
            /\ lastSetup' = [op |-> "initialize", invalid |-> cfg.tileSize = 0,
                             result |-> IF failed = 0 THEN "VK_SUCCESS"
                                        ELSE "VK_ERROR_INITIALIZATION_FAILED",
                             failed |-> failed, before |-> Stored]
    /\ UNCHANGED scene

\* TerrainRenderer::updateConfig(config)
UpdateConfig(cfg) ==
    /\ rendererConfig' = cfg
    /\ lastSetup' = [op |-> "updateConfig", invalid |-> cfg.tileSize = 0, result |-> "void",
                     failed |-> 0, before |-> Stored]
    /\ UNCHANGED <<rndVars, rendererResources, scene>>

\* HeightfieldScene::load_heightfield(data, width, height)
load_heightfield(sc, data, width, height) ==
    IF data = "null" \/ width = 0 \/ height = 0 THEN [scene |-> sc, result |-> "false"]
    ELSE [scene |-> [width_ |-> width, height_ |-> height,
                     heights_ |-> [data |-> data, count |-> width * height]],
          result |-> "true"]
LoadHeightfield(data, width, height) ==
    /\ scene' = load_heightfield(scene, data, width, height).scene
    /\ lastSetup' = [op |-> "load_heightfield",
                     invalid |-> data = "null" \/ width = 0 \/ height = 0,
                     result |-> load_heightfield(scene, data, width, height).result,
                     failed |-> 0, before |-> Stored]
    /\ UNCHANGED <<rndVars, rendererConfig, rendererResources>>

\* The configurations and heightmaps drawn.
TileSizes == {0, 256, 512}
SetupConfigs == [tileSize : TileSizes, maxVisibleTiles : {256}]
DefaultRenderConfig == [tileSize |-> 512, maxVisibleTiles |-> 256]
MaxSide == 1
HeightData == {"null", "heights"}

SetupInitState ==
    /\ rendererConfig = DefaultRenderConfig
    /\ rendererResources = NoResources
    /\ scene = [width_ |-> 0, height_ |-> 0, heights_ |-> [data |-> "null", count |-> 0]]
    /\ lastSetup = NoSetup

-----------------------------------------------------------------------------
(***************************************************************************)
(* GPUQuadtree                                                             *)
(*                                                                         *)
(* Coordinates are whole numbers.  A box's centre and half-extents can be   *)
(* halves, so the plane tests compare twice the quantities the code         *)
(* compares; a length is compared through its square.  In the ranges drawn  *)
(* every value is exactly representable as a float.                         *)
(***************************************************************************)

\* config_.max_depth, config_.max_objects_per_node, and how many object ids
\* the callers use.
MaxDepth == 1
MaxObjectsPerNode == 1
NumObjects == 2
ObjectIds == 1..NumObjects

\* config_.bounds: a square in x and y that halves MaxDepth + 1 times into
\* whole numbers, one unit high.
WorldSize == 2 ^ (MaxDepth + 1)
Box(x0, y0, x1, y1) == [min |-> <<x0, y0, 0>>, max |-> <<x1, y1, 1>>]
WorldBounds == Box(0, 0, WorldSize, WorldSize)

\* AxisAlignedBoundingBox::intersects: the two boxes share a point.
intersects(a, b) ==
    \A k \in 1..3 : ~(a.max[k] < b.min[k] \/ a.min[k] > b.max[k])

Abs(n) == IF n < 0 THEN -n ELSE n
Dot(u, v) == u[1] * v[1] + u[2] * v[2] + u[3] * v[3]
\* Twice center(), twice extents() (the half-size), and the square of twice
\* radius() (half the diagonal).
Center2(b) == [k \in 1..3 |-> b.min[k] + b.max[k]]
Extents2(b) == [k \in 1..3 |-> b.max[k] - b.min[k]]
Diagonal2(b) == Dot(Extents2(b), Extents2(b))

\* is_aabb_in_frustum: for no plane is center_distance < -radius, with
\* radius the box's reach along the plane normal.
is_aabb_in_frustum(aabb, frustum_planes) ==
    \A i \in 1..Len(frustum_planes) :
        LET plane == frustum_planes[i]
            center_distance2 == Dot(plane.n, Center2(aabb)) + 2 * plane.d
            radius2 == Abs(plane.n[1] * Extents2(aabb)[1])
                       + Abs(plane.n[2] * Extents2(aabb)[2])
                       + Abs(plane.n[3] * Extents2(aabb)[3])
        IN  ~(center_distance2 < -radius2)

\* is_sphere_in_frustum(bounds.center(), bounds.radius(), planes): for no
\* plane is sphere_distance < -radius.
is_sphere_in_frustum(b, frustum_planes) ==
    \A i \in 1..Len(frustum_planes) :
        LET plane == frustum_planes[i]
            sphere_distance2 == Dot(plane.n, Center2(b)) + 2 * plane.d
        IN  ~(sphere_distance2 < 0 /\ sphere_distance2 * sphere_distance2 > Diagonal2(b))

\* The nodes are named by the path of child indices from the root.
Root == <<>>
ChildBounds(b, i) ==
    LET cx == (b.min[1] + b.max[1]) \div 2
        cy == (b.min[2] + b.max[2]) \div 2
    IN  CASE i = 0 -> [min |-> b.min, max |-> <<cx, cy, b.max[3]>>]
          [] i = 1 -> [min |-> <<cx, b.min[2], b.min[3]>>, max |-> <<b.max[1], cy, b.max[3]>>]
          [] i = 2 -> [min |-> <<b.min[1], cy, b.min[3]>>, max |-> <<cx, b.max[2], b.max[3]>>]
          [] i = 3 -> [min |-> <<cx, cy, b.min[3]>>, max |-> b.max]
RECURSIVE NodeBounds(_)
NodeBounds(p) ==
    IF p = Root THEN WorldBounds
    ELSE ChildBounds(NodeBounds(SubSeq(p, 1, Len(p) - 1)), p[Len(p)])

NewNode == [is_leaf |-> TRUE, objects |-> <<>>]
EmptyTree == (Root :> NewNode)

RECURSIVE insert_recursive(_, _, _, _)
RECURSIVE InsertIntoChildren(_, _, _, _, _, _)
RECURSIVE Redistribute(_, _, _, _)

\* (subdivide_without_redistribution: a split that leaves the node's objects
\* behind, for comparison.)
subdivide_without_redistribution(nodes, objs, p) ==
    IF ~nodes[p].is_leaf \/ Len(p) >= MaxDepth THEN nodes
    ELSE [i \in {Append(p, k) : k \in 0..3} |-> NewNode]
         @@ [nodes EXCEPT ![p] = [is_leaf |-> FALSE, objects |-> <<>>]]

\* subdivide_node: four empty leaves below the node, then every object the
\* node held that objects_ still knows is inserted again from the node.
subdivide_node(nodes, objs, p) ==
    IF ~nodes[p].is_leaf \/ Len(p) >= MaxDepth THEN nodes
    ELSE LET split == [i \in {Append(p, k) : k \in 0..3} |-> NewNode]
                      @@ [nodes EXCEPT ![p] = [is_leaf |-> FALSE, objects |-> <<>>]]
         IN  Redistribute(split, objs, p, nodes[p].objects)

Redistribute(nodes, objs, p, ids) ==
    IF ids = <<>> THEN nodes
    ELSE LET next == IF Head(ids) \in DOMAIN objs
                     THEN insert_recursive(nodes, objs, p, Head(ids)).nodes
                     ELSE nodes
         IN  Redistribute(next, objs, p, Tail(ids))

\* insert_recursive: a leaf with room (or at the depth limit) takes the
\* object; a full leaf is subdivided; then the object goes into every child
\* whose bounds it intersects.
insert_recursive(nodes, objs, p, id) ==
    IF nodes[p].is_leaf /\ (Len(nodes[p].objects) < MaxObjectsPerNode \/ Len(p) >= MaxDepth)
    THEN [nodes |-> [nodes EXCEPT ![p].objects = Append(@, id)], inserted |-> TRUE]
    ELSE LET sub == IF nodes[p].is_leaf THEN subdivide_node(nodes, objs, p) ELSE nodes
         IN  InsertIntoChildren(sub, objs, p, id, 0, FALSE)

InsertIntoChildren(nodes, objs, p, id, i, inserted) ==
    IF i > 3 THEN [nodes |-> nodes, inserted |-> inserted]
    ELSE LET child == Append(p, i)
         IN  IF child \in DOMAIN nodes /\ intersects(NodeBounds(child), objs[id].bounds)
             THEN LET r == insert_recursive(nodes, objs, child, id)
                  IN  InsertIntoChildren(r.nodes, objs, p, id, i + 1, inserted \/ r.inserted)
             ELSE InsertIntoChildren(nodes, objs, p, id, i + 1, inserted)

\* remove_recursive: the first occurrence of the id goes from every leaf.
RECURSIVE RemoveFirst(_, _)
RemoveFirst(s, id) ==
    IF s = <<>> THEN s
    ELSE IF Head(s) = id THEN Tail(s) ELSE <<Head(s)>> \o RemoveFirst(Tail(s), id)
remove_recursive(nodes, id) ==
    [p \in DOMAIN nodes |->
        IF nodes[p].is_leaf THEN [nodes[p] EXCEPT !.objects = RemoveFirst(@, id)] ELSE nodes[p]]

NoResults == [visible_objects |-> <<>>, culled_objects |-> <<>>]

\* add_node_objects_to_culled
RECURSIVE add_node_objects_to_culled(_, _, _, _)
RECURSIVE AddChildrenToCulled(_, _, _, _, _)
add_node_objects_to_culled(nodes, objs, p, results) ==
    IF nodes[p].is_leaf
    THEN [results EXCEPT !.culled_objects =
              @ \o SelectSeq(nodes[p].objects, LAMBDA id : id \in DOMAIN objs)]
    ELSE AddChildrenToCulled(nodes, objs, p, 0, results)
AddChildrenToCulled(nodes, objs, p, i, results) ==
    IF i > 3 THEN results
    ELSE AddChildrenToCulled(nodes, objs, p, i + 1,
             IF Append(p, i) \in DOMAIN nodes
             THEN add_node_objects_to_culled(nodes, objs, Append(p, i), results)
             ELSE results)

\* cull_frustum_recursive: a node outside the frustum culls everything
\* below it; a leaf tests each of its objects by its bounding sphere.
RECURSIVE cull_frustum_recursive(_, _, _, _, _)
RECURSIVE CullChildren(_, _, _, _, _, _)
cull_frustum_recursive(nodes, objs, p, planes, results) ==
    IF ~is_aabb_in_frustum(NodeBounds(p), planes)
    THEN add_node_objects_to_culled(nodes, objs, p, results)
    ELSE IF nodes[p].is_leaf
         THEN LET known == SelectSeq(nodes[p].objects, LAMBDA id : id \in DOMAIN objs)
                  Seen(id) == is_sphere_in_frustum(objs[id].bounds, planes)
              IN  [visible_objects |-> results.visible_objects \o SelectSeq(known, Seen),
                   culled_objects |-> results.culled_objects
                                      \o SelectSeq(known, LAMBDA id : ~Seen(id))]
         ELSE CullChildren(nodes, objs, p, planes, 0, results)
CullChildren(nodes, objs, p, planes, i, results) ==
    IF i > 3 THEN results
    ELSE CullChildren(nodes, objs, p, planes, i + 1,
             IF Append(p, i) \in DOMAIN nodes
             THEN cull_frustum_recursive(nodes, objs, Append(p, i), planes, results)
             ELSE results)

cull_frustum(q, planes) == cull_frustum_recursive(q.nodes, q.objects_, Root, planes, NoResults)

\* The compute shader's main() for one object: the bounding sphere of the
\* uploaded box against the six planes (frustum culling on, LOD culling off).
ShaderVisible(b, planes) == is_sphere_in_frustum(b, planes)

\* objects_ walked in the order the two passes of cull_gpu_compute walk it.
RECURSIVE InOrder(_)
InOrder(S) ==
    IF S = {} THEN <<>>
    ELSE LET m == CHOOSE x \in S : \A y \in S : x <= y IN <<m>> \o InOrder(S \ {m})

\* cull_gpu_compute: without the compute pipeline it is cull_frustum;
\* with it, every entry of objects_ is listed by its visibility flag.
cull_gpu_compute(q, planes) ==
    IF ~q.compute_pipeline_initialized_ THEN cull_frustum(q, planes)
    ELSE LET ids == InOrder(DOMAIN q.objects_)
             Seen(id) == ShaderVisible(q.objects_[id].bounds, planes)
         IN  [visible_objects |-> SelectSeq(ids, Seen),
              culled_objects |-> SelectSeq(ids, LAMBDA id : ~Seen(id))]

\* The boxes objects are inserted with: inside one quadrant, across the
\* centre lines, and outside the world.
ObjectBoxes ==
    {Box(0, 0, 1, 1), Box(WorldSize - 1, WorldSize - 1, WorldSize, WorldSize),
     Box(1, 0, WorldSize - 1, 1), Box(1, 1, WorldSize - 1, WorldSize - 1),
     Box(WorldSize + 1, 0, WorldSize + 2, 1)}

\* Frusta open along z, bounded by x >= x0, x <= x1, y >= y0, y <= y1.
Plane(a, b, c, d) == [n |-> <<a, b, c>>, d |-> d]
Slab(x0, x1, y0, y1) ==
    <<Plane(1, 0, 0, -x0), Plane(-1, 0, 0, x1), Plane(0, 1, 0, -y0), Plane(0, -1, 0, y1),
      Plane(0, 0, 1, WorldSize), Plane(0, 0, -1, WorldSize)>>
Frusta ==
    {Slab(r[1], r[2], 0, y1) :
        r \in {<<0, WorldSize \div 2 - 1>>, <<0, WorldSize>>, <<WorldSize \div 2 + 1, WorldSize>>},
        y1 \in {WorldSize \div 2 - 1, WorldSize}}

NoCull == [op |-> "none", planes |-> <<>>, results |-> NoResults]

\* insert(object): rejected outside config_.bounds; otherwise stored in
\* objects_, counted, and put into the tree.  Callers give a new object an
\* id that no stored object has.
QuadtreeInsert(id, box) ==
    /\ id \notin DOMAIN quadtree.objects_
    /\ IF ~intersects(WorldBounds, box) THEN UNCHANGED quadtree
       ELSE LET objs == (id :> [id |-> id, bounds |-> box]) @@ quadtree.objects_
            IN  quadtree' = [quadtree EXCEPT
                    !.objects_ = objs,
                    !.object_count_ = @ + 1,
                    !.nodes = insert_recursive(quadtree.nodes, objs, Root, id).nodes]
    /\ cullCall' = NoCull
    /\ UNCHANGED calc

\* remove(object_id)
QuadtreeRemove(id) ==
    /\ id \in DOMAIN quadtree.objects_
    /\ quadtree' = [quadtree EXCEPT
           !.nodes = remove_recursive(@, id),
           !.objects_ = [i \in (DOMAIN @) \ {id} |-> @[i]],
           !.object_count_ = @ - 1]
    /\ cullCall' = NoCull
    /\ UNCHANGED calc

\* clear()
QuadtreeClear ==
    /\ quadtree.object_count_ > 0
    /\ quadtree' = [quadtree EXCEPT !.nodes = EmptyTree, !.objects_ = <<>>, !.object_count_ = 0]
    /\ cullCall' = NoCull
    /\ UNCHANGED calc

CullFrustum(planes) ==
    /\ cullCall' = [op |-> "cull_frustum", planes |-> planes, results |-> cull_frustum(quadtree, planes)]
    /\ UNCHANGED <<quadtree, calc>>

CullGpuCompute(planes) ==
    /\ cullCall' = [op |-> "cull_gpu_compute", planes |-> planes,
                    results |-> cull_gpu_compute(quadtree, planes)]
    /\ UNCHANGED <<quadtree, calc>>

\* After the constructor: one empty leaf; the compute pipeline is there
\* unless initialize_gpu_resources failed.
QuadtreeInitState ==
    /\ quadtree \in [nodes : {EmptyTree}, objects_ : {<<>>}, object_count_ : {0},
                     compute_pipeline_initialized_ : BOOLEAN]
    /\ cullCall = NoCull

NoCalc == [op |-> "none"]

\* ---- TileCoordinate

\* int32_t division by a positive divisor: the quotient is rounded toward
\* zero (\div rounds down).
IntDiv(a, b) == IF a >= 0 THEN a \div b ELSE (a + (b - 1)) \div b

getParent(c) ==
    [x |-> IntDiv(c.x, 2), y |-> IntDiv(c.y, 2), level |-> c.level + 1,
     datasetId |-> c.datasetId]
getChildren(c) ==
    IF c.level = 0 THEN <<>>
    ELSE <<[x |-> c.x * 2, y |-> c.y * 2, level |-> c.level - 1, datasetId |-> c.datasetId],
           [x |-> c.x * 2 + 1, y |-> c.y * 2, level |-> c.level - 1, datasetId |-> c.datasetId],
           [x |-> c.x * 2, y |-> c.y * 2 + 1, level |-> c.level - 1, datasetId |-> c.datasetId],
           [x |-> c.x * 2 + 1, y |-> c.y * 2 + 1, level |-> c.level - 1, datasetId |-> c.datasetId]>>

\* The coordinates drawn: x and y within MaxTileIndex of zero and at the
\* ends of int32_t, a few levels, two datasets.
MaxTileIndex == 3
Int32Max == 2147483647
Int32Min == -Int32Max - 1
DrawnCoordinates ==
    [x : (-MaxTileIndex)..MaxTileIndex \cup {Int32Min, Int32Max},
     y : {-MaxTileIndex, -2, 0, 1, Int32Max},
     level : {0, 1, 7},
     datasetId : {"", "ds"}]
CoordinateInit == calc \in [op : {"drawn"}, c : DrawnCoordinates, result : {<<>>}]

GetParent ==
    /\ calc.op = "drawn"
    /\ calc' = [calc EXCEPT !.op = "getParent", !.result = getParent(calc.c)]
    /\ UNCHANGED <<quadtree, cullCall>>
\* getChildren() of the coordinate getParent() returned
GetChildrenOfParent ==
    /\ calc.op = "getParent"
    /\ calc' = [calc EXCEPT !.op = "getParent().getChildren", !.result = getChildren(calc.result)]
    /\ UNCHANGED <<quadtree, cullCall>>

\* ---- TerrainTile::updatePriority
\*
\* The priority is a float: 1000 / (distance + 1) + lodBonus + accessBonus.
\* It is held exactly, multiplied by distance + 1 (two tiles at the same
\* distance compare as their priorities do).  8 - m_coordinate.level is
\* uint32_t arithmetic: below zero it wraps to the difference plus 2^32.
\* The priority of such a tile is held as the part without the 2^32, with
\* wrapped set.

lodBonus10(level) == (8 - level) * 10
accessBonus(m_framesSinceAccess) ==
    IF 100 - m_framesSinceAccess > 0 THEN 100 - m_framesSinceAccess ELSE 0
updatePriority(level, distance, m_framesSinceAccess) ==
    [wrapped |-> 8 - level < 0,
     scaled |-> 1000 + (lodBonus10(level) + accessBonus(m_framesSinceAccess)) * (distance + 1)]
\* p > q for two priorities at the same distance: the 2^32 * 10 of a wrapped
\* difference outweighs everything else in the ranges drawn.
PriorityGreater(p, q) ==
    \/ p.wrapped /\ ~q.wrapped
    \/ p.wrapped = q.wrapped /\ p.scaled > q.scaled

\* Two tiles drawn at one distance with one framesSinceAccess, at levels up
\* to MaxLevel.
MaxLevel == 9
MaxDistance == 3
FramesDrawn == {0, 1, 100, AgingThreshold}
PriorityInit ==
    calc \in [op : {"drawn"}, levelA : 0..MaxLevel, levelB : 0..MaxLevel,
              distance : 0..MaxDistance, framesSinceAccess : FramesDrawn,
              priorityA : {updatePriority(0, 0, 0)}, priorityB : {updatePriority(0, 0, 0)}]
\* updatePriority on each of the two tiles
UpdatePriorities ==
    /\ calc.op = "drawn"
    /\ calc' = [calc EXCEPT
           !.op = "updatePriority",
           !.priorityA = updatePriority(calc.levelA, calc.distance, calc.framesSinceAccess),
           !.priorityB = updatePriority(calc.levelB, calc.distance, calc.framesSinceAccess)]
    /\ UNCHANGED <<quadtree, cullCall>>

\* ---- the box-against-frustum tests, on drawn boxes and planes

\* (NegativeVertex: the corner nearest along the normal, for comparison.)
NegativeVertex(b, normal) ==
    [k \in 1..3 |-> IF normal[k] >= 0 THEN b.min[k] ELSE b.max[k]]
\* The positive vertex: bounds.min, with each coordinate whose normal
\* component is >= 0 replaced by that of bounds.max.
PositiveVertex(b, normal) ==
    [k \in 1..3 |-> IF normal[k] >= 0 THEN b.max[k] ELSE b.min[k]]

\* TerrainTile::isVisible(frustumPlanes) on the tile's m_bounds.
isVisible(m_bounds, frustumPlanes) ==
    \A i \in 1..6 :
        ~(Dot(frustumPlanes[i].n, PositiveVertex(m_bounds, frustumPlanes[i].n))
              + frustumPlanes[i].d < 0)

\* Frustum::intersects(bounds)
FrustumIntersects(planes, b) ==
    \A i \in 1..6 : ~(Dot(planes[i].n, PositiveVertex(b, planes[i].n)) + planes[i].d < 0)

\* The boxes, planes and camera positions drawn: coordinates of either
\* sign up to MaxCoord, normals along an axis or diagonal.
MaxCoord == 2
Coords == (-MaxCoord)..MaxCoord
TestBoxes ==
    {[min |-> <<x, y, -1>>, max |-> <<x + w, y + h, 1>>] :
        x \in {-MaxCoord, 0}, y \in {-1}, w \in {1, MaxCoord}, h \in {0, 2}}
TestPlanes ==
    {Plane(n[1], n[2], n[3], d) :
        n \in {<<1, 0, 0>>, <<-1, 0, 0>>, <<0, 1, 0>>, <<1, -1, 0>>, <<-1, 1, 1>>, <<0, 0, -1>>},
        d \in {-MaxCoord, 1}}
\* Six planes that every drawn box is inside of, and the frusta made from
\* them by putting drawn planes at one or two of the six places.
WidePlanes ==
    <<Plane(1, 0, 0, 4 * MaxCoord), Plane(-1, 0, 0, 4 * MaxCoord),
      Plane(0, 1, 0, 4 * MaxCoord), Plane(0, -1, 0, 4 * MaxCoord),
      Plane(0, 0, 1, 4 * MaxCoord), Plane(0, 0, -1, 4 * MaxCoord)>>
TestFrusta ==
    {[[WidePlanes EXCEPT ![i] = p] EXCEPT ![j] = q] :
        i \in 1..6, j \in 1..6, p \in TestPlanes, q \in TestPlanes}
TestCameras == {<<x, y, 0>> : x \in {-MaxCoord, 0, 1}, y \in {-1, 1}}

FrustumTestInit ==
    calc \in [op : {"drawn"}, box : TestBoxes, planes : TestFrusta, camera : TestCameras,
              result : {FALSE}]

TileIsVisible ==
    /\ calc.op = "drawn"
    /\ calc' = [calc EXCEPT !.op = "TerrainTile::isVisible",
                            !.result = isVisible(calc.box, calc.planes)]
    /\ UNCHANGED <<quadtree, cullCall>>
FrustumIntersectsBounds ==
    /\ calc.op = "drawn"
    /\ calc' = [calc EXCEPT !.op = "Frustum::intersects",
                            !.result = FrustumIntersects(calc.planes, calc.box)]
    /\ UNCHANGED <<quadtree, cullCall>>
QuadtreeIsAabbInFrustum ==
    /\ calc.op = "drawn"
    /\ calc' = [calc EXCEPT !.op = "GPUQuadtree::is_aabb_in_frustum",
                            !.result = is_aabb_in_frustum(calc.box, calc.planes)]
    /\ UNCHANGED <<quadtree, cullCall>>
CullInitState ==
    /\ quadtree = [nodes |-> EmptyTree, objects_ |-> <<>>, object_count_ |-> 0,
                   compute_pipeline_initialized_ |-> FALSE]
    /\ cullCall = NoCull
    /\ calc = NoCalc

\* ---- TerrainRenderer::performCulling, the candidate list
\*
\* World coordinates are whole metres.  A distance is compared through its
\* square, and a tile centre through twice its coordinates.

\* getTileBounds(coord): a square of side 1000 / 2^level, 200 high;
\* <<x, height, z>> as in the code.
BoundsTileSize(level) == 1000 \div (2 ^ level)
getTileBounds(coord) ==
    LET tileSize == BoundsTileSize(coord.level)
    IN  [min |-> <<coord.x * tileSize, 0, coord.y * tileSize>>,
         max |-> <<(coord.x + 1) * tileSize, 200, (coord.y + 1) * tileSize>>]

\* The square of twice glm::length(cameraPos - bounds.center()).
Distance2Sq(cameraPos, b) ==
    LET d == [k \in 1..3 |-> 2 * cameraPos[k] - (b.min[k] + b.max[k])] IN Dot(d, d)

\* The levels the loop visits: from 0 up, below 8, until
\* nearDistance * 2^level exceeds maxDistance.
LevelLimit == 8
RECURSIVE LevelsFrom(_, _, _)
LevelsFrom(level, nearDistance, maxDistance) ==
    IF level >= LevelLimit \/ nearDistance * (2 ^ level) > maxDistance THEN {}
    ELSE {level} \cup LevelsFrom(level + 1, nearDistance, maxDistance)

\* The cells enumerated at a level, with the tile size 2000 / 2^level the
\* enumeration uses, and of those the ones that pass the two culls.
LevelCandidates(level, cameraPos, maxDistance, cfg, frustum, dataset) ==
    LET tileSize == 2000 \div (2 ^ level)
        minTileX == IntDiv(cameraPos[1] - maxDistance, tileSize) - 1
        maxTileX == IntDiv(cameraPos[1] + maxDistance, tileSize) + 1
        minTileY == IntDiv(cameraPos[3] - maxDistance, tileSize) - 1
        maxTileY == IntDiv(cameraPos[3] + maxDistance, tileSize) + 1
        cells == {[x |-> x, y |-> y, level |-> level, datasetId |-> dataset] :
                     x \in minTileX..maxTileX, y \in minTileY..maxTileY}
    IN  {coord \in cells :
            /\ ~(cfg.enableFrustumCulling /\ ~FrustumIntersects(frustum, getTileBounds(coord)))
            /\ ~(Distance2Sq(cameraPos, getTileBounds(coord)) > 4 * maxDistance * maxDistance)}

\* std::sort by distance; coordinates at the same distance come out in an
\* order the sort is free to choose: coordinate order, or its reverse.
CoordBefore(a, b) ==
    \/ a.level < b.level
    \/ a.level = b.level /\ a.y < b.y
    \/ a.level = b.level /\ a.y = b.y /\ a.x < b.x
\* (DistanceDescending: the comparator the other way round, for comparison.)
DistanceDescending(distA, distB) == distA > distB
DistanceLess(distA, distB) == distA < distB
\* S holds each coordinate with the distance the comparator computes for it.
\* Each element is placed by the number of elements that come before it.
SortByDistance(S, ties) ==
    LET Before(a, b) == \/ DistanceLess(a.dist, b.dist)
                        \/ /\ ~DistanceLess(b.dist, a.dist)
                           /\ IF ties = "ascending" THEN CoordBefore(a.coord, b.coord)
                              ELSE CoordBefore(b.coord, a.coord)
        place == [a \in S |-> 1 + Cardinality({b \in S : Before(b, a)})]
    IN  [i \in 1..Cardinality(S) |-> (CHOOSE a \in S : place[a] = i).coord]

\* (ClearWhenOver: a list that is emptied instead of cut, for comparison.)
ClearWhenOver(list, maxVisibleTiles) == IF Len(list) > maxVisibleTiles THEN <<>> ELSE list
\* candidateTiles.resize(maxVisibleTiles) when there are more
Truncate(list, maxVisibleTiles) ==
    IF Len(list) > maxVisibleTiles THEN SubSeq(list, 1, maxVisibleTiles) ELSE list

\* The candidate list of one performCulling call: what the level loop
\* pushed (generated), and the sorted, cut list.
candidateTiles(camera, cfg, frustum, ties) ==
    LET maxDistance == IF camera.farPlane < cfg.farDistance THEN camera.farPlane
                       ELSE cfg.farDistance
        all == UNION {LevelCandidates(level, camera.position, maxDistance, cfg, frustum, "ds") :
                         level \in LevelsFrom(0, cfg.nearDistance, maxDistance)}
    IN  [maxDistance |-> maxDistance,
         generated |-> Cardinality(all),
         list |-> Truncate(SortByDistance(
                               {[coord |-> c, dist |-> Distance2Sq(camera.position, getTileBounds(c))] :
                                   c \in all}, ties),
                           cfg.maxVisibleTiles)]

\* The cameras, configurations and frusta drawn.
HalfSpace ==
    <<Plane(1, 0, 0, 0), Plane(-1, 0, 0, 100000), Plane(0, 1, 0, 100000),
      Plane(0, -1, 0, 100000), Plane(0, 0, 1, 100000), Plane(0, 0, -1, 100000)>>
DrawnCameras ==
    [position : {<<0, 100, 0>>, <<-300, 150, 700>>, <<130, 100, -40>>}, farPlane : {1000, 5000}]
DrawnConfigs ==
    [nearDistance : {250, 500}, farDistance : {400, 1000, 1500},
     maxVisibleTiles : {0, 4, 256}, enableFrustumCulling : BOOLEAN]
NoCandidates == [maxDistance |-> 0, generated |-> 0, list |-> <<>>]
CullingInit ==
    calc \in [op : {"drawn"}, camera : DrawnCameras, cfg : DrawnConfigs, frustum : {HalfSpace},
              ties : {"ascending", "descending"},
              candidates : {NoCandidates}, before : {NoCandidates}]

\* performCulling up to the cut of the candidate list
PerformCulling ==
    /\ calc.op \in {"drawn", "updateConfig"}
    /\ calc' = [calc EXCEPT
           !.op = IF calc.op = "drawn" THEN "performCulling" ELSE "performCulling again",
           !.candidates = candidateTiles(calc.camera, calc.cfg, calc.frustum, calc.ties)]
    /\ UNCHANGED <<quadtree, cullCall>>

\* updateConfig with a larger farDistance and nothing else changed
RaiseFarDistance(farDistance) ==
    /\ calc.op = "performCulling"
    /\ farDistance > calc.cfg.farDistance
    /\ calc' = [calc EXCEPT !.op = "updateConfig", !.cfg.farDistance = farDistance,
                            !.before = calc.candidates, !.candidates = NoCandidates]
    /\ UNCHANGED <<quadtree, cullCall>>

-----------------------------------------------------------------------------
(***************************************************************************)
(* TerrainMemoryAllocator: the pool mutexes and the statistics mutex.      *)
(* A call is the sequence of lock and unlock steps its code performs       *)
(***************************************************************************)

NumCallers == 2
Callers == 1..NumCallers
Worker == NumCallers + 1
LockThreads == Callers \cup {Worker}

StatsMutex == "m_statsMutex"
Mutexes == PoolTypes \cup {StatsMutex}
\* m_pools is iterated in one (unspecified) order by every loop over it.
PoolOrder == <<"VertexBuffer", "HeightTexture">>

AcquireStep(m) == <<"lock", m>>
ReleaseStep(m) == <<"unlock", m>>
\* One lock_guard on pool p's m_mutex: allocateBuffer, allocateImage,
\* deallocate, cleanup, defragment, getFragmentation.
PoolSection(p) == <<AcquireStep(p), ReleaseStep(p)>>
RECURSIVE EachPoolSection(_)
EachPoolSection(ps) ==
    IF ps = <<>> THEN <<>> ELSE PoolSection(Head(ps)) \o EachPoolSection(Tail(ps))

\* updateGlobalStats: m_statsMutex for the whole function; inside it, for
\* each pool, getFragmentation takes that pool's m_mutex.
updateGlobalStatsLocks ==
    <<AcquireStep(StatsMutex)>> \o EachPoolSection(PoolOrder) \o <<ReleaseStep(StatsMutex)>>
\* garbageCollect: cleanup on each pool, then updateGlobalStats.
garbageCollectLocks == EachPoolSection(PoolOrder) \o updateGlobalStatsLocks
\* defragment: nothing unless enableAutoDefragmentation; else each pool's
\* defragment (which locks only when the pool enables defragmentation),
\* then updateGlobalStats.
DefragmentingPool(p) == TypeConfig(p).enableDefragmentation
defragmentLocks(enableAuto) ==
    IF ~enableAuto THEN <<>>
    ELSE EachPoolSection(SelectSeq(PoolOrder, DefragmentingPool)) \o updateGlobalStatsLocks
handleMemoryPressureLocks(enableAuto) == garbageCollectLocks \o defragmentLocks(enableAuto)
\* checkMemoryPressure: getMemoryUsageRatio takes no lock; above the critical
\* threshold handleMemoryPressure runs.
checkMemoryPressureLocks(critical, enableAuto) ==
    IF critical THEN handleMemoryPressureLocks(enableAuto) ELSE <<>>

\* TerrainMemoryAllocator::allocateBuffer / allocateImage on pool p
allocateLocks(p, ok, critical, enableAuto) ==
    PoolSection(p) \o
    (IF ok THEN updateGlobalStatsLocks \o checkMemoryPressureLocks(critical, enableAuto)
     ELSE <<>>)
\* (deallocateHoldingPool: a deallocate that refreshes the statistics before
\* it lets go of the pool, for comparison.)
deallocateHoldingPool(p) ==
    <<AcquireStep(p), AcquireStep(StatsMutex), ReleaseStep(StatsMutex), ReleaseStep(p)>>
\* TerrainMemoryAllocator::deallocate on pool p
deallocateLocks(p) == PoolSection(p) \o updateGlobalStatsLocks
\* getStats
getStatsLocks == <<AcquireStep(StatsMutex), ReleaseStep(StatsMutex)>>
\* backgroundWorker: one turn of the loop after the sleep.
backgroundWorkerLocks(defragDue, critical, enableAuto) ==
    garbageCollectLocks
    \o (IF defragDue THEN defragmentLocks(enableAuto) ELSE <<>>)
    \o checkMemoryPressureLocks(critical, enableAuto)

NoLockCall == [op |-> "none", pool |-> "", rest |-> <<>>]

BeginAllocate(t, p) ==
    /\ lockCall[t] = NoLockCall
    /\ \E ok \in BOOLEAN, critical \in BOOLEAN, enableAuto \in BOOLEAN :
         lockCall' = [lockCall EXCEPT ![t] =
             [op |-> "allocate", pool |-> p, rest |-> allocateLocks(p, ok, critical, enableAuto)]]
    /\ UNCHANGED mutexOwner
BeginDeallocate(t, p) ==
    /\ lockCall[t] = NoLockCall
    /\ lockCall' = [lockCall EXCEPT ![t] =
                       [op |-> "deallocate", pool |-> p, rest |-> deallocateLocks(p)]]
    /\ UNCHANGED mutexOwner
BeginGetStats(t) ==
    /\ lockCall[t] = NoLockCall
    /\ lockCall' = [lockCall EXCEPT ![t] = [op |-> "getStats", pool |-> "", rest |-> getStatsLocks]]
    /\ UNCHANGED mutexOwner
BeginBackgroundTurn ==
    /\ lockCall[Worker] = NoLockCall
    /\ \E defragDue \in BOOLEAN, critical \in BOOLEAN, enableAuto \in BOOLEAN :
         lockCall' = [lockCall EXCEPT ![Worker] =
             [op |-> "backgroundWorker", pool |-> "",
              rest |-> backgroundWorkerLocks(defragDue, critical, enableAuto)]]
    /\ UNCHANGED mutexOwner

\* What is left of thread t's call after its next step.
AfterStep(t) ==
    IF Len(lockCall[t].rest) = 1 THEN NoLockCall
    ELSE [lockCall[t] EXCEPT !.rest = Tail(@)]
\* std::lock_guard's constructor: the thread goes on when the mutex is free.
AcquireMutex(t) ==
    /\ lockCall[t].rest # <<>> /\ Head(lockCall[t].rest)[1] = "lock"
    /\ mutexOwner[Head(lockCall[t].rest)[2]] = {}
    /\ mutexOwner' = [mutexOwner EXCEPT ![Head(lockCall[t].rest)[2]] = {t}]
    /\ lockCall' = [lockCall EXCEPT ![t] = AfterStep(t)]
\* std::lock_guard's destructor
ReleaseMutex(t) ==
    /\ lockCall[t].rest # <<>> /\ Head(lockCall[t].rest)[1] = "unlock"
    /\ mutexOwner' = [mutexOwner EXCEPT ![Head(lockCall[t].rest)[2]] = {}]
    /\ lockCall' = [lockCall EXCEPT ![t] = AfterStep(t)]

LockInitState ==
    /\ mutexOwner = [m \in Mutexes |-> {}]
    /\ lockCall = [t \in LockThreads |-> NoLockCall]

-----------------------------------------------------------------------------
(***************************************************************************)
(* Specifications                                                          *)
(***************************************************************************)

MemPoolsInitState ==
    /\ pools = [t \in PoolTypes |-> NewPool]
    /\ allocs = <<>>
    /\ alive = TRUE
    /\ m_initialized = FALSE
    /\ m_backgroundThreadRunning = FALSE
    /\ lastAlloc = NoAlloc
    /\ config = DefaultConfig
    /\ callbacks = [memoryPressure |-> FALSE, allocationFailed |-> FALSE]
    /\ m_stats = updateGlobalStats([t \in {} |-> NewPool])
    /\ events = <<>>

MemAllocatorInitState ==
    /\ pools = [t \in {} |-> NewPool]
    /\ allocs = <<>>
    /\ alive = TRUE
    /\ m_initialized = FALSE
    /\ m_backgroundThreadRunning = FALSE
    /\ lastAlloc = NoAlloc
    /\ config = DefaultConfig
    /\ callbacks = [memoryPressure |-> FALSE, allocationFailed |-> FALSE]
    /\ m_stats = updateGlobalStats([t \in {} |-> NewPool])
    /\ events = <<>>

Init == TileInitState /\ MgrInitState /\ MemPoolsInitState /\ RendererInitState /\ CullInitState /\ SetupInitState /\ LockInitState

\* The tile state machine, called from NumThreads threads.
OtherThanTile == UNCHANGED <<mgrVars, memVars, rndVars, cullVars, lockVars, setupVars>>
TileNext ==
    \/ \E th \in Threads : LoadDataEnter(th) /\ OtherThanTile
    \/ \E th \in Threads : LoadDataFinish(th) /\ OtherThanTile
    \/ \E th \in Threads : UploadEnter(th) /\ OtherThanTile
    \/ \E th \in Threads : UploadFinish(th) /\ OtherThanTile
    \/ \E th \in Threads : UnloadFromGPU(th) /\ OtherThanTile
    \/ \E th \in Threads : EvictEnter(th) /\ OtherThanTile
    \/ \E th \in Threads : EvictUnload(th) /\ OtherThanTile
    \/ \E th \in Threads : EvictClear(th) /\ OtherThanTile
TileSpec == Init /\ [][TileNext]_vars
\* A thread inside an operation goes on running: the scheduler starves nobody.
FairTileSpec == TileSpec /\ \A th \in Threads : WF_vars(TileContinue(th) /\ OtherThanTile)

\* The tile manager.
OtherThanManager == UNCHANGED <<tileVars, memVars, rndVars, cullVars, lockVars, setupVars>>
ManagerNext ==
    \/ \E c \in Coordinates : CreateTile(c) /\ OtherThanManager
    \/ \E n \in 0..MaxTilesChoice : SetMaxTiles(n) /\ OtherThanManager
    \/ \E n \in MemoryBudgets : SetMaxMemoryUsage(n) /\ OtherThanManager
    \/ \E c \in Coordinates : DropReference(c) /\ OtherThanManager
    \/ \E c \in Coordinates : LoadTile(c) /\ OtherThanManager
    \/ \E c \in Coordinates : IncrementFrameCounter(c) /\ OtherThanManager
    \/ \E c \in Coordinates : MarkAccessed(c) /\ OtherThanManager
ManagerSpec == Init /\ [][ManagerNext]_vars

\* getHighPriorityLoadingQueue, applied to every map of QueueMgrInitState.
QueueInit == TileInitState /\ QueueMgrInitState /\ MemPoolsInitState /\ RendererInitState /\ CullInitState /\ SetupInitState /\ LockInitState
QueueNext ==
    \/ \E maxCount \in 0..MaxCount : GetHighPriorityLoadingQueue(maxCount) /\ OtherThanManager
QueueSpec == QueueInit /\ [][QueueNext]_vars

\* Memory pools used directly.
OtherThanPool == UNCHANGED <<tileVars, mgrVars, rndVars, cullVars, lockVars, setupVars, config, callbacks, m_stats, events,
                             m_initialized, m_backgroundThreadRunning>>
PoolNext ==
    \/ \E type \in PoolTypes, size \in RequestSizes : PoolAllocate(type, KindOf(type), size) /\ OtherThanPool
    \/ \E type \in PoolTypes, id \in 1..MaxAllocations : PoolDeallocate(type, id) /\ OtherThanPool
    \/ \E type \in PoolTypes, n \in ResizeSizes : PoolResize(type, n) /\ OtherThanPool
    \/ \E type \in PoolTypes : PoolCleanup(type) /\ OtherThanPool
    \/ \E type \in PoolTypes : PoolDefragment(type) /\ OtherThanPool
    \/ \E id \in 1..MaxAllocations : DropAllocation(id) /\ OtherThanPool
PoolSpec == Init /\ [][PoolNext]_vars

\* The allocator and the pools it owns.
AllocatorInit == TileInitState /\ MgrInitState /\ MemAllocatorInitState /\ RendererInitState /\ CullInitState /\ SetupInitState /\ LockInitState
OtherThanAllocator == UNCHANGED <<tileVars, mgrVars, rndVars, cullVars, lockVars, setupVars>>
AllocatorNext ==
    \/ \E cfg \in Configs : Initialize(cfg) /\ OtherThanAllocator
    \/ DestroyAllocator /\ OtherThanAllocator
    \/ \E type \in PoolTypes, size \in RequestSizes : AllocatorAllocate(type, KindOf(type), size) /\ OtherThanAllocator
    \/ \E id \in 1..MaxAllocations : AllocatorDeallocate(id) /\ OtherThanAllocator
    \/ GarbageCollect /\ OtherThanAllocator
    \/ HandleMemoryPressure /\ OtherThanAllocator
    \/ BackgroundTick /\ OtherThanAllocator
    \/ \E cbs \in CallbackChoices : SetCallbacks(cbs) /\ OtherThanAllocator
    \/ \E id \in 1..MaxAllocations : AllocatorDropAllocation(id) /\ OtherThanAllocator
AllocatorSpec == AllocatorInit /\ [][AllocatorNext]_vars

\* The renderer: the calling thread, NumLoaders loader threads and the
\* streaming thread.  loaders are the loader threads the machine runs, coords
\* the coordinates that come into view, cap the number of aging passes a tile
\* goes through.
OtherThanRenderer == UNCHANGED <<tileVars, mgrVars, memVars, cullVars, lockVars, setupVars>>
RendererNext(loaders, coords, cap) ==
    \/ RendererInitialize(loaders) /\ OtherThanRenderer
    \/ \E d \in Datasets : LoadDataset(d) /\ OtherThanRenderer
    \/ \E cands \in Listings(coords) : RenderCull(cands) /\ OtherThanRenderer
    \/ RenderUpdateTileStreaming(cap) /\ OtherThanRenderer
    \/ RenderTilesCheck /\ OtherThanRenderer
    \/ RenderTilesDraw /\ OtherThanRenderer
    \/ RenderTilesReturn /\ OtherThanRenderer
    \/ DestroyBegin /\ OtherThanRenderer
    \/ DestroyJoinLoaders /\ OtherThanRenderer
    \/ DestroyJoinStreaming /\ OtherThanRenderer
    \/ \E th \in loaders : LoaderTake(th) /\ OtherThanRenderer
    \/ \E th \in loaders : LoaderExit(th) /\ OtherThanRenderer
    \/ \E th \in loaders : LoaderLoadData(th) /\ OtherThanRenderer
    \/ \E th \in loaders : LoaderUpload(th) /\ OtherThanRenderer
    \/ \E th \in loaders : LoaderPublish(th) /\ OtherThanRenderer
    \/ \E th \in loaders : LoaderRelease(th) /\ OtherThanRenderer
    \/ StreamingPass(cap) /\ OtherThanRenderer
    \/ StreamingExit /\ OtherThanRenderer
RendererSpec == Init /\ [][RendererNext(Loaders, Coordinates, MaxAge)]_vars

\* The renderer with the critical sections of the map's readers in two steps
\* (the lock taken, the read done and the lock released), so that what the
\* loaders can do while a reader holds m_tilesMutex is a state of the model.
\* MapLockSpec is the renderer on a machine with one loader thread.
MapLockNext(loaders, coords) ==
    \/ RendererInitialize(loaders) /\ OtherThanRenderer
    \/ \E d \in Datasets : LoadDataset(d) /\ OtherThanRenderer
    \/ \E cands \in Listings(coords) : RenderCull(cands) /\ OtherThanRenderer
    \/ RenderUpdateTileStreaming(MaxAge) /\ OtherThanRenderer
    \/ RenderTilesCheck /\ OtherThanRenderer
    \/ RenderTilesDraw /\ OtherThanRenderer
    \/ RenderTilesReturn /\ OtherThanRenderer
    \/ GetTileLock /\ OtherThanRenderer
    \/ GetTileReturn /\ OtherThanRenderer
    \/ \E th \in loaders : LoaderTake(th) /\ OtherThanRenderer
    \/ \E th \in loaders : LoaderLoadData(th) /\ OtherThanRenderer
    \/ \E th \in loaders : LoaderUpload(th) /\ OtherThanRenderer
    \/ \E th \in loaders : LoaderPublish(th) /\ OtherThanRenderer
    \/ \E th \in loaders : LoaderRelease(th) /\ OtherThanRenderer
    \/ StreamingLock(MaxAge) /\ OtherThanRenderer
    \/ StreamingPassLocked /\ OtherThanRenderer
MapLockSpec == Init /\ [][MapLockNext({1}, Coordinates)]_vars

\* The renderer on a machine with one loader thread and one coordinate in view,
\* and tiles left to age until the aging pass evicts them.
AgingCoordinates == {c \in Coordinates : c.x = 0}
AgingSpec == Init /\ [][RendererNext({1}, AgingCoordinates, AgingThreshold + 2)]_vars

\* One frame: the renderer with every coordinate's tile loaded and Ready,
\* drawn just now or left unseen for (nearly) AgingThreshold passes; the
\* caller renders one frame, and the streaming thread runs its passes while
\* that frame is being rendered (the passes that come when a tile is about
\* to age out; the others only count).
FrameAges == {0, AgingThreshold - 1, AgingThreshold}
FrameTiles == {id \in EntryIds : \E c \in Coordinates : c.x = id - 1}
CoordOf(id) == CHOOSE c \in Coordinates : c.x = id - 1
EvictionNear ==
    \E id \in Mapped(rendererTiles) : tileObjs[id].framesSinceAccess >= AgingThreshold - 1
FrameInitState ==
    /\ rendererInitialized = TRUE
    /\ m_activeDataset \in Datasets
    /\ m_datasets = {m_activeDataset}
    /\ m_threadsRunning = TRUE
    /\ m_loadingQueue = <<>>
    /\ \E ages \in [FrameTiles -> FrameAges] :
         tileObjs = [id \in EntryIds |->
                       IF id \in FrameTiles
                       THEN [coord |-> CoordOf(id), state |-> "Ready",
                             framesSinceAccess |-> ages[id], gpuValid |-> TRUE]
                       ELSE NoTile]
    /\ rendererTiles = [c \in {CoordOf(id) : id \in FrameTiles} |-> c.x + 1]
    /\ m_tilesMutex = "free"
    /\ loader = [th \in Loaders |-> IdleLoader]
    /\ streaming = "running"
    /\ main = "idle"
    /\ visibleTiles = <<>>
    /\ frame = NoFrame
    /\ takes = [id \in EntryIds |-> IF id \in FrameTiles THEN <<1>> ELSE <<>>]
FrameInit == TileInitState /\ MgrInitState /\ MemPoolsInitState /\ FrameInitState /\ CullInitState /\ SetupInitState /\ LockInitState
FrameNext ==
    \/ \E cands \in Listings(Coordinates) : frame = NoFrame /\ RenderCull(cands) /\ OtherThanRenderer
    \/ RenderUpdateTileStreaming(AgingThreshold + 2) /\ OtherThanRenderer
    \/ RenderTilesCheck /\ OtherThanRenderer
    \/ RenderTilesDraw /\ OtherThanRenderer
    \/ RenderTilesReturn /\ OtherThanRenderer
    \/ frame.ret = "pending" /\ EvictionNear /\ StreamingPass(AgingThreshold + 2) /\ OtherThanRenderer
FrameSpec == FrameInit /\ [][FrameNext]_vars

\* One frame as in FrameSpec, with TerrainTile::render in its two steps and
\* the other threads' calls that destroy a tile's GPU resources.
DrawNext ==
    \/ \E cands \in Listings(Coordinates) : frame = NoFrame /\ RenderCull(cands) /\ OtherThanRenderer
    \/ RenderUpdateTileStreaming(AgingThreshold + 2) /\ OtherThanRenderer
    \/ RenderTilesCheck /\ OtherThanRenderer
    \/ RenderTileEnter /\ OtherThanRenderer
    \/ RenderTileMarkAccessed /\ OtherThanRenderer
    \/ RenderTileDraw /\ OtherThanRenderer
    \/ RenderTilesReturn /\ OtherThanRenderer
    \/ frame.ret = "pending" /\ EvictionNear /\ StreamingPass(AgingThreshold + 2) /\ OtherThanRenderer
    \/ \E id \in EntryIds : frame.ret = "pending" /\ UnloadTileFromGPU(id) /\ OtherThanRenderer
DrawSpec == FrameInit /\ [][DrawNext]_vars

\* The renderer with its datasets loaded, unloaded and activated between
\* frames, on a machine with one loader thread.  The candidates of a frame are
\* coordinates of the active dataset.
DatasetChoices == Datasets \cup {"other"}
DatasetNext ==
    \/ RendererInitialize({1}) /\ OtherThanRenderer
    \/ \E d \in DatasetChoices : LoadDataset(d) /\ OtherThanRenderer
    \/ \E d \in DatasetChoices : UnloadDataset(d) /\ OtherThanRenderer
    \/ \E d \in DatasetChoices : SetActiveDataset(d) /\ OtherThanRenderer
    \/ \E cands \in Listings({c \in AgingCoordinates : c.datasetId = m_activeDataset}) :
         RenderCull(cands) /\ OtherThanRenderer
    \/ RenderUpdateTileStreaming(MaxAge) /\ OtherThanRenderer
    \/ RenderTilesCheck /\ OtherThanRenderer
    \/ RenderTilesDraw /\ OtherThanRenderer
    \/ RenderTilesReturn /\ OtherThanRenderer
    \/ DestroyBegin /\ OtherThanRenderer
    \/ DestroyJoinLoaders /\ OtherThanRenderer
    \/ DestroyJoinStreaming /\ OtherThanRenderer
    \/ LoaderTake(1) /\ OtherThanRenderer
    \/ LoaderExit(1) /\ OtherThanRenderer
    \/ LoaderLoadData(1) /\ OtherThanRenderer
    \/ LoaderUpload(1) /\ OtherThanRenderer
    \/ LoaderPublish(1) /\ OtherThanRenderer
    \/ LoaderRelease(1) /\ OtherThanRenderer
    \/ StreamingExit /\ OtherThanRenderer
DatasetSpec == Init /\ [][DatasetNext]_vars

\* Frame after frame with the same candidate: the renderer of FrameSpec's
\* first state, one loader thread, and every frame's candidate list the one
\* coordinate of AgingCoordinates.
StayingCandidate == CHOOSE c \in AgingCoordinates : TRUE
\* The renderer after loadDataset, with the candidate's tile not loaded yet, or
\* loaded, Ready and last drawn some frames ago.
ReloadInitState ==
    /\ rendererInitialized = TRUE
    /\ m_activeDataset \in Datasets
    /\ m_datasets = {m_activeDataset}
    /\ m_threadsRunning = TRUE
    /\ m_loadingQueue = <<>>
    /\ \E loaded \in BOOLEAN, age \in FrameAges :
         /\ ~loaded => age = 0
         /\ tileObjs = [id \in EntryIds |->
                         IF loaded /\ id = 1
                         THEN [coord |-> StayingCandidate, state |-> "Ready",
                               framesSinceAccess |-> age, gpuValid |-> TRUE]
                         ELSE NoTile]
         /\ rendererTiles = IF loaded THEN With(<<>>, StayingCandidate, 1) ELSE <<>>
         /\ takes = [id \in EntryIds |-> IF loaded /\ id = 1 THEN <<1>> ELSE <<>>]
    /\ m_tilesMutex = "free"
    /\ loader = [th \in Loaders |-> IdleLoader]
    /\ streaming = "running"
    /\ main = "idle"
    /\ visibleTiles = <<>>
    /\ frame = NoFrame
ReloadInit == TileInitState /\ MgrInitState /\ MemPoolsInitState /\ ReloadInitState /\ CullInitState /\ SetupInitState /\ LockInitState
ReloadNext ==
    \/ RenderCull(<<StayingCandidate>>) /\ OtherThanRenderer
    \/ RenderUpdateTileStreaming(AgingThreshold + 3) /\ OtherThanRenderer
    \/ RenderTilesCheck /\ OtherThanRenderer
    \/ RenderTilesDraw /\ OtherThanRenderer
    \/ RenderTilesReturn /\ OtherThanRenderer
    \/ LoaderTake(1) /\ OtherThanRenderer
    \/ LoaderLoadData(1) /\ OtherThanRenderer
    \/ LoaderUpload(1) /\ OtherThanRenderer
    \/ LoaderPublish(1) /\ OtherThanRenderer
    \/ LoaderRelease(1) /\ OtherThanRenderer
    \/ StreamingPass(AgingThreshold + 3) /\ OtherThanRenderer
\* The application renders frame after frame and the loader keeps running.
\* (A streaming turn over tiles whose counters are at their cap changes
\* nothing, so no condition is stated for it: it may run as often as it likes.)
FrameStep ==
    \/ RenderCull(<<StayingCandidate>>) \/ RenderUpdateTileStreaming(AgingThreshold + 3)
    \/ RenderTilesCheck \/ RenderTilesDraw \/ RenderTilesReturn
ReloadSpec ==
    /\ ReloadInit /\ [][ReloadNext]_vars
    /\ WF_vars(FrameStep /\ OtherThanRenderer)
    /\ WF_vars((LoaderTake(1) \/ LoaderLoadData(1) \/ LoaderUpload(1) \/ LoaderPublish(1)
                 \/ LoaderRelease(1)) /\ OtherThanRenderer)

\* A step of loader thread th.
LoaderStep(th) ==
    \/ LoaderTake(th) \/ LoaderExit(th) \/ LoaderLoadData(th)
    \/ LoaderUpload(th) \/ LoaderPublish(th) \/ LoaderRelease(th)
\* A step of destroy after it has asked the threads to stop.
DestroyContinue == DestroyJoinLoaders \/ DestroyJoinStreaming
\* Every thread that can run does: the loaders, the streaming thread on its
\* way out, and the thread inside destroy.
FairRendererSpec ==
    /\ RendererSpec
    /\ \A th \in Loaders : WF_vars(LoaderStep(th) /\ OtherThanRenderer)
    /\ WF_vars(StreamingExit /\ OtherThanRenderer)
    /\ WF_vars(DestroyContinue /\ OtherThanRenderer)


-----------------------------------------------------------------------------
\* The allocator's callers and its background worker, each inside a call at
\* its own lock step.
OtherThanLocks == UNCHANGED <<tileVars, mgrVars, memVars, rndVars, cullVars, setupVars>>
LockNext ==
    \/ \E t \in Callers, p \in PoolTypes : BeginAllocate(t, p) /\ OtherThanLocks
    \/ \E t \in Callers, p \in PoolTypes : BeginDeallocate(t, p) /\ OtherThanLocks
    \/ \E t \in Callers : BeginGetStats(t) /\ OtherThanLocks
    \/ BeginBackgroundTurn /\ OtherThanLocks
    \/ \E t \in LockThreads : AcquireMutex(t) /\ OtherThanLocks
    \/ \E t \in LockThreads : ReleaseMutex(t) /\ OtherThanLocks
LockSpec == Init /\ [][LockNext]_vars

\* Set-up calls in any order: initialize with any step failing, updateConfig,
\* load_heightfield.
OtherThanSetup == UNCHANGED <<tileVars, mgrVars, memVars, cullVars, lockVars>>
SetupNext ==
    \/ \E cfg \in SetupConfigs, failed \in 0..Len(InitializeSteps) :
           InitializeRenderer(cfg, {1}, failed) /\ OtherThanSetup
    \/ \E cfg \in SetupConfigs : UpdateConfig(cfg) /\ OtherThanSetup
    \/ \E data \in HeightData, width \in 0..MaxSide, height \in 0..MaxSide :
           LoadHeightfield(data, width, height) /\ OtherThanSetup
SetupSpec == Init /\ [][SetupNext]_vars

\* The functions applied to drawn inputs.
OtherThanCalc == UNCHANGED <<tileVars, mgrVars, memVars, rndVars, setupVars, lockVars>>
CalcElseInit ==
    /\ TileInitState /\ MgrInitState /\ MemPoolsInitState /\ RendererInitState /\ SetupInitState /\ LockInitState
    /\ quadtree = [nodes |-> EmptyTree, objects_ |-> <<>>, object_count_ |-> 0,
                   compute_pipeline_initialized_ |-> FALSE]
    /\ cullCall = NoCull
FrustumTestNext ==
    \/ TileIsVisible /\ OtherThanCalc
    \/ FrustumIntersectsBounds /\ OtherThanCalc
    \/ QuadtreeIsAabbInFrustum /\ OtherThanCalc
FrustumTestStart == CalcElseInit /\ FrustumTestInit
FrustumTestSpec == FrustumTestStart /\ [][FrustumTestNext]_vars

CoordinateNext ==
    \/ GetParent /\ OtherThanCalc
    \/ GetChildrenOfParent /\ OtherThanCalc
CoordinateStart == CalcElseInit /\ CoordinateInit
CoordinateSpec == CoordinateStart /\ [][CoordinateNext]_vars

CullingNext ==
    \/ PerformCulling /\ OtherThanCalc
    \/ \E farDistance \in {1000, 1500} : RaiseFarDistance(farDistance) /\ OtherThanCalc
CullingStart == CalcElseInit /\ CullingInit
CullingSpec == CullingStart /\ [][CullingNext]_vars

PriorityNext ==
    \/ UpdatePriorities /\ OtherThanCalc
PriorityStart == CalcElseInit /\ PriorityInit
PrioritySpec == PriorityStart /\ [][PriorityNext]_vars

\* The quadtree: objects inserted and removed, and the two culling calls.
OtherThanQuadtree == UNCHANGED <<tileVars, mgrVars, memVars, rndVars, setupVars, lockVars>>
QuadtreeInit ==
    /\ TileInitState /\ MgrInitState /\ MemPoolsInitState /\ RendererInitState /\ SetupInitState /\ LockInitState
    /\ QuadtreeInitState /\ calc = NoCalc
QuadtreeNext ==
    \/ \E id \in ObjectIds, box \in ObjectBoxes : QuadtreeInsert(id, box) /\ OtherThanQuadtree
    \/ \E id \in ObjectIds : QuadtreeRemove(id) /\ OtherThanQuadtree
    \/ QuadtreeClear /\ OtherThanQuadtree
    \/ \E planes \in Frusta : CullFrustum(planes) /\ OtherThanQuadtree
    \/ \E planes \in Frusta : CullGpuCompute(planes) /\ OtherThanQuadtree
QuadtreeSpec == QuadtreeInit /\ [][QuadtreeNext]_vars

(***************************************************************************)
(* Properties                                                              *)
(***************************************************************************)

C2_EvictReturnsToEmpty ==
    [][\A th \in Threads :
          (pc[th] = "evictFromMemory_clear" /\ pc'[th] = "idle" /\ entry[th] = "Ready") =>
              /\ ~m_cpuData' /\ ~IsValid(m_gpuResources')
              /\ m_state' = "Empty" /\ LoadDataGuard(m_state')]_vars

\* C3: evictFromMemory entered on a tile that is not in Error returns, with
\* the tile Evicted and hasValidGPUResources() false.
C3_EvictReturnsEvicted ==
    \A th \in Threads :
        (pc[th] = "evictFromMemory" /\ entry[th] # "Error")
            ~> (pc[th] = "idle" /\ ret[th] = "void" /\ m_state = "Evicted" /\ ~hasValidGPUResources)

\* C4: when createTile has returned, the map holds at most maxTiles tiles
\* (maxTiles having been configured before the first tile went in).
C4_MapWithinMaxTiles ==
    (/\ lastCall.op = "createTile"
     /\ \/ lastCall.how = "inserted"
        \/ lastCall.how = "existing" /\ configuredEmpty)
        => Cardinality(DOMAIN m_tiles) <= m_maxTiles

\* C4 witness: a createTile that inserted had to erase to get down to maxTiles.
C4_Witness ==
    /\ lastCall.op = "createTile" /\ lastCall.how = "inserted" /\ lastCall.removed >= 1
    /\ configuredEmpty
    /\ m_maxTiles >= 1 /\ Cardinality(DOMAIN m_tiles) = m_maxTiles

\* C5: when a createTile that inserted a tile (and so ran enforceLimits) has
\* returned, the memory of the tiles in the map sums to at most maxMemoryUsage.
C5_MemoryWithinBudget ==
    (lastCall.op = "createTile" /\ lastCall.how = "inserted")
        => getTotalMemoryUsage(m_tiles) <= m_maxMemoryUsage

\* C6: a pool's used size is at most its total size (stated for the pools
\* whose counters have not wrapped below zero).
C6_UsedWithinTotal ==
    \A t \in PoolTypes : pools[t].usedSize >= 0 => pools[t].usedSize <= pools[t].totalSize

\* C7: an allocate call on an existing pool is rejected with out-of-memory
\* and allocates nothing when used + size exceeds the total (stated for the
\* requests that exceed it even before the size is rounded up to the
\* alignment), and an allocate call leaves the total of an existing pool as
\* it was.
C7_AllocateRejectedOverTotal ==
    (lastAlloc.op \in {"buffer", "image"} /\ lastAlloc.existed /\ lastAlloc.usedBefore >= 0) =>
        /\ lastAlloc.usedBefore + lastAlloc.size > lastAlloc.totalBefore
           => /\ lastAlloc.result = "VK_ERROR_OUT_OF_DEVICE_MEMORY"
              /\ lastAlloc.id = 0
              /\ pools[lastAlloc.type].usedSize = lastAlloc.usedBefore
        /\ pools[lastAlloc.type].totalSize = lastAlloc.totalBefore

\* The allocations a pool of this type has made.
MadeBy(t) == {i \in Ids(allocs) : allocs[i].type = t}

\* C8 (first half): after N successful allocations of size S from a pool and
\* no deallocation, the pool's used size is N * align(S).
C8_UsedIsAlignedSum ==
    \A t \in PoolTypes : \A S \in RequestSizes :
        (/\ \A i \in Ids(allocs) : allocs[i].destroyed = 0
         /\ \A i \in MadeBy(t) : allocs[i].size = S)
            => pools[t].usedSize
                 = Cardinality(MadeBy(t)) * AlignedSize(S, TypeConfig(t).allocationAlignment)

\* How often, and where first, the last allocator call did something.
Count(e) == Cardinality({i \in 1..Len(events) : events[i] = e})
Between(e, from, to) ==
    \E i, j, k \in 1..Len(events) :
        i < j /\ j < k /\ events[i] = from /\ events[j] = e /\ events[k] = to

\* C9: when the pool has turned a request down, the allocation-failed
\* callback is invoked only after garbage collection, defragmentation and a
\* second attempt at the pool.
C9_RetryBeforeFailedCallback ==
    (Count("pool.allocate") > 0 /\ Count("allocationFailedCallback") > 0) =>
        /\ Count("garbageCollect") > 0 /\ Count("defragmentPass") > 0
        /\ Count("pool.allocate") >= 2

\* C10: in every memory-pressure check, usage above the warning threshold
\* reaches the memory-pressure callback, and usage above the critical
\* threshold has garbage collection and a defragmentation pass run between
\* the check's start and its return.  (Neither changes a pool's used size,
\* so the ratio after the call is the ratio the check saw.)
C10_PressureCheckActs ==
    Count("checkMemoryPressure") > 0 =>
        /\ (UsageAbove(pools, config, WarningThresholdPct) /\ callbacks.memoryPressure)
              => Between("memoryPressureCallback", "checkMemoryPressure", "checkMemoryPressureReturns")
        /\ UsageAbove(pools, config, CriticalThresholdPct)
              => /\ Between("garbageCollect", "checkMemoryPressure", "checkMemoryPressureReturns")
                 /\ Between("defragmentPass", "checkMemoryPressure", "checkMemoryPressureReturns")

\* C11: Error is terminal.  Once the tile's state is Error, no step of
\* loadData, uploadToGPU, unloadFromGPU or evictFromMemory on that tile object
\* changes it.
C11_ErrorIsTerminal == [][m_state = "Error" => m_state' = "Error"]_vars

\* C11 witness: evictFromMemory was entered on a tile in Error, ran to its
\* end, and the tile is still in Error with its CPU and GPU data released.
C11_Witness ==
    /\ m_state = "Error"
    /\ \E th \in Threads : entry[th] = "Error" /\ ret[th] = "void" /\ pc[th] = "idle"
    /\ ~m_cpuData /\ m_gpuResources = NullGPU

\* C12: loadData called on a tile that is not Empty, and uploadToGPU called
\* on a tile that is not Loaded, return VK_ERROR_INITIALIZATION_FAILED and
\* leave the tile's state (and its data) as they were.
C12_GuardRejects ==
    [][\A th \in Threads :
          \/ LoadDataEnter(th) /\ m_state # "Empty"
          \/ UploadEnter(th) /\ m_state # "Loaded"
          => /\ ret'[th] = "VK_ERROR_INITIALIZATION_FAILED"
             /\ pc'[th] = "idle"
             /\ m_state' = m_state
             /\ m_cpuData' = m_cpuData /\ m_gpuResources' = m_gpuResources]_vars

\* C12 witness: a call was turned away from a Ready tile, which is still Ready
\* with its GPU resources in place.
C12_Witness ==
    /\ m_state = "Ready" /\ hasValidGPUResources
    /\ \E th \in Threads : entry[th] = "Ready" /\ ret[th] = "VK_ERROR_INITIALIZATION_FAILED"

C14_DestroyJoinsThreads ==
    (main = "joinLoaders")
        ~> (/\ main = "idle" /\ ~rendererInitialized
            /\ streaming = "notStarted"
            /\ \A th \in Loaders : loader[th] = NoLoader)

\* C15: an aging pass (updateTileStates, on the streaming thread or inside
\* render) ages out exactly the tiles whose framesSinceAccess it has brought
\* above 300: a tile it counts up to at most 300 keeps its state and its GPU
\* resources, and a tile it counts above 300 is left Evicted with its GPU
\* resources released.
C15_AgedOutExactlyAbove300 ==
    [][\A id \in Mapped(rendererTiles) :
          tileObjs'[id].framesSinceAccess = tileObjs[id].framesSinceAccess + 1 =>
              IF tileObjs'[id].framesSinceAccess > AgingThreshold
              THEN tileObjs'[id].state = "Evicted" /\ ~tileObjs'[id].gpuValid
              ELSE /\ tileObjs'[id].state = tileObjs[id].state
                   /\ tileObjs'[id].gpuValid = tileObjs[id].gpuValid]_vars

\* C16: renderTiles goes through every visible tile of the frame.  A tile
\* without valid GPU resources is skipped, a tile whose render call returns
\* an error is skipped, every other tile is drawn, and the only way out of the
\* loop is the return of VK_SUCCESS after the last visible tile.  (A step to
\* "terminated" is another thread ending the process, not a step of the loop.)
C16_BadTileSkipped ==
    [][main' # "terminated" =>
       /\ (main = "renderTiles" /\ main' # main /\ Len(frame.tiles) < Len(visibleTiles))
             => /\ tileObjs[CurrentTile].gpuValid
                /\ main' = "tile->render" /\ frame' = frame
       /\ (main = "renderTiles" /\ frame'.tiles # frame.tiles)
             => /\ ~tileObjs[CurrentTile].gpuValid
                /\ frame'.tiles = Append(frame.tiles, "skipped: no GPU resources")
                /\ main' = "renderTiles"
       /\ (main = "tile->render" /\ (main' # main \/ frame' # frame))
             => /\ main' = "renderTiles"
                /\ frame'.tiles = Append(frame.tiles,
                        IF tileObjs[CurrentTile].gpuValid THEN "drawn" ELSE "skipped: render failed")
                /\ frame'.ret = "pending"
       /\ (main \in {"renderTiles", "tile->render"} /\ main' = "idle")
             => /\ frame'.ret = "VK_SUCCESS"
                /\ Len(frame'.tiles) = Len(visibleTiles) /\ frame'.tiles = frame.tiles]_vars

\* C16 witness: a frame has returned VK_SUCCESS in which one visible tile was
\* skipped because its render call failed and another was drawn.
C16_Witness ==
    /\ frame.ret = "VK_SUCCESS" /\ main = "idle"
    /\ \E i, j \in 1..Len(frame.tiles) :
         frame.tiles[i] = "skipped: render failed" /\ frame.tiles[j] = "drawn"

\* C17: getHighPriorityLoadingQueue(maxCount) returns at most maxCount
\* coordinates, no coordinate twice, each of a tile of the map that is Empty
\* or Evicted, in non-increasing order of priority, and no Empty or Evicted
\* tile it leaves out has a strictly higher priority than one it returns.
C17_QueueIsTopPriority ==
    lastCall.op = "getHighPriorityLoadingQueue" =>
        LET r == lastCall.result
            returned == {r[i] : i \in 1..Len(r)}
            waiting == {c \in DOMAIN m_tiles : m_tiles[c].state \in {"Empty", "Evicted"}}
        IN  /\ Len(r) <= lastCall.maxCount
            /\ Cardinality(returned) = Len(r)
            /\ returned \subseteq waiting
            /\ \A i, j \in 1..Len(r) : i < j => m_tiles[r[i]].priority >= m_tiles[r[j]].priority
            /\ \A c \in waiting \ returned, d \in returned :
                  m_tiles[c].priority <= m_tiles[d].priority
            /\ Len(r) < lastCall.maxCount => returned = waiting

\* C17 witness: of two waiting tiles with different priorities the call with
\* maxCount 1 returned the one with the higher priority, leaving the other out.
C17_Witness ==
    /\ lastCall.op = "getHighPriorityLoadingQueue" /\ lastCall.maxCount = 1
    /\ Len(lastCall.result) = 1
    /\ \E c \in DOMAIN m_tiles :
         /\ c # lastCall.result[1]
         /\ m_tiles[c].state = "Evicted"
         /\ m_tiles[c].priority < m_tiles[lastCall.result[1]].priority

\* C18: the tiles limit enforcement removes are the ones with the largest
\* framesSinceAccess: after a createTile that removed tiles, no tile left in
\* the map has a framesSinceAccess strictly greater than that of a removed
\* tile.
C18_RemovedAreLeastRecentlyUsed ==
    (lastCall.op = "createTile" /\ lastCall.removed > 0) =>
        \A k \in DOMAIN m_tiles, f \in lastCall.removedFrames :
            m_tiles[k].framesSinceAccess <= f

\* C18 witness: a createTile removed one tile that had gone a frame without
\* access and kept a tile accessed since.
C18_Witness ==
    /\ lastCall.op = "createTile" /\ lastCall.removed = 1
    /\ lastCall.removedFrames = {1}
    /\ \E k \in DOMAIN m_tiles : m_tiles[k].framesSinceAccess = 0

Occurrences(s, x) == Cardinality({i \in 1..Len(s) : s[i] = x})

\* C21: after cull_frustum every object stored in the quadtree is in exactly
\* one of the two result lists, and there once.
C21_EachObjectClassifiedOnce ==
    cullCall.op = "cull_frustum"
    => \A id \in DOMAIN quadtree.objects_ :
           Occurrences(cullCall.results.visible_objects, id)
           + Occurrences(cullCall.results.culled_objects, id) = 1

\* C22: for the objects stored and the six planes given, the compute path
\* lists an object as visible exactly when cull_frustum does, and as culled
\* exactly when cull_frustum does.
C22_BackendsAgree ==
    (cullCall.op = "cull_gpu_compute" /\ quadtree.compute_pipeline_initialized_)
    => LET gpu == cullCall.results
           cpu == cull_frustum(quadtree, cullCall.planes)
       IN  \A id \in DOMAIN quadtree.objects_ :
               /\ id \in Elems(gpu.visible_objects) <=> id \in Elems(cpu.visible_objects)
               /\ id \in Elems(gpu.culled_objects) <=> id \in Elems(cpu.culled_objects)

Corners(b) == {<<x, y, z>> : x \in {b.min[1], b.max[1]}, y \in {b.min[2], b.max[2]},
                             z \in {b.min[3], b.max[3]}}
SignedDistance(plane, point) == Dot(plane.n, point) + plane.d
InsideBox(b, point) == \A k \in 1..3 : b.min[k] <= point[k] /\ point[k] <= b.max[k]
BoxTested == calc.op \in {"TerrainTile::isVisible", "Frustum::intersects",
                          "GPUQuadtree::is_aabb_in_frustum"}

\* C23: each of the three box-against-frustum tests answers not visible for a
\* box whose corners are all on the negative side of one of the six planes,
\* and visible for a box that holds a camera position which is on the
\* non-negative side of all six.
C23_BoxFrustumTest ==
    BoxTested
    => /\ (\E i \in 1..6 : \A c \in Corners(calc.box) : SignedDistance(calc.planes[i], c) < 0)
              => calc.result = FALSE
       /\ (/\ InsideBox(calc.box, calc.camera)
           /\ \A i \in 1..6 : SignedDistance(calc.planes[i], calc.camera) >= 0)
              => calc.result = TRUE

\* C23 witness: Frustum::intersects has answered not visible for a box that
\* is behind a diagonal plane only, and TerrainTile::isVisible could answer
\* visible for a box around the camera.
C23_Witness ==
    /\ calc.op = "Frustum::intersects" /\ calc.result = FALSE
    /\ \E i \in 1..6 :
         /\ calc.planes[i].n = <<1, -1, 0>>
         /\ \A c \in Corners(calc.box) : SignedDistance(calc.planes[i], c) < 0
         /\ \A j \in (1..6) \ {i} : \E c \in Corners(calc.box) : SignedDistance(calc.planes[j], c) >= 0

C25_LowerLevelHigherPriority ==
    (calc.op = "updatePriority" /\ calc.levelA < calc.levelB)
    => PriorityGreater(calc.priorityA, calc.priorityB)

Culled == calc.op \in {"performCulling", "performCulling again"}
CandidateDistance(i) == Distance2Sq(calc.camera.position, getTileBounds(calc.candidates.list[i]))

\* C26: the candidate list of a performCulling call is in ascending order of
\* distance to the camera and has at most maxVisibleTiles entries.
C26_CandidatesSortedAndBounded ==
    Culled
    => /\ Len(calc.candidates.list) <= calc.cfg.maxVisibleTiles
       /\ \A i, j \in 1..Len(calc.candidates.list) :
              i < j => CandidateDistance(i) <= CandidateDistance(j)

\* C26 witness: more candidates were generated than maxVisibleTiles allows,
\* at more than one distance, and the list was cut to maxVisibleTiles.
C26_Witness ==
    /\ Culled
    /\ calc.cfg.maxVisibleTiles = 4
    /\ calc.candidates.generated > 4
    /\ Len(calc.candidates.list) = 4
    /\ CandidateDistance(1) < CandidateDistance(4)

\* C27: with the camera, the frustum and the rest of the configuration as
\* they were, a larger maxDistance gives at least as many candidates, before
\* and after the cut.
C27_MoreDistanceNotFewerCandidates ==
    calc.op = "performCulling again"
    => /\ calc.candidates.maxDistance >= calc.before.maxDistance
       /\ calc.candidates.generated >= calc.before.generated
       /\ Len(calc.candidates.list) >= Len(calc.before.list)

\* C27 witness: maxDistance went up, a further level came into range, and
\* more candidates were generated than before.
C27_Witness ==
    /\ calc.op = "performCulling again"
    /\ calc.candidates.maxDistance > calc.before.maxDistance
    /\ calc.before.generated > 0
    /\ calc.candidates.generated > calc.before.generated
    /\ \E i \in 1..Len(calc.candidates.list) :
           \A j \in 1..Len(calc.before.list) :
               calc.candidates.list[i].level > calc.before.list[j].level

\* C28: a call that supplies tile size 0, or a heightmap with null data,
\* zero width or zero height, is rejected (an error result or an exception)
\* and leaves the stored configuration and data as they were.
C28_InvalidValuesRejected ==
    lastSetup.invalid
    => /\ lastSetup.result \in {"false", "VK_ERROR_INITIALIZATION_FAILED", "exception"}
       /\ Stored = lastSetup.before

\* C29: when a step of initialize has failed, the failure is returned, the
\* renderer is not initialized, holds nothing the attempt created, and has
\* no background thread running.
C29_FailedInitializeLeavesNothing ==
    (lastSetup.op = "initialize" /\ lastSetup.failed # 0)
    => /\ lastSetup.result # "VK_SUCCESS"
       /\ ~rendererInitialized
       /\ rendererResources = NoResources
       /\ ~m_threadsRunning /\ streaming = "notStarted"
       /\ \A th \in Loaders : loader[th] = NoLoader

\* A reader of the map holds m_tilesMutex: a pass over all tiles, or a lookup.
MapReaderHolds == m_tilesMutex \in {"updateTileStates", "getTile"}
\* The next step of loader th's iteration can be taken.
LoaderCanStep(th) ==
    ENABLED ((LoaderLoadData(th) \/ LoaderUpload(th) \/ LoaderPublish(th)) /\ OtherThanRenderer)
\* Loader th is at one of the steps pcs with a tile the map does not hold
\* (so every tile the reader reads is a different one), and a reader holds
\* the map.
ReaderBeside(th, pcs) ==
    /\ Running /\ MapReaderHolds
    /\ loader[th].pc \in pcs
    /\ loader[th].item \notin Mapped(rendererTiles)

\* C30 as stated: while a thread reads the tile map, a loader that is loading,
\* uploading or publishing a different tile is not made to wait.
C30_ReaderNeverDelaysLoader ==
    \A th \in Loaders :
        ReaderBeside(th, {"loadData", "uploadToGPU", "publish"}) => LoaderCanStep(th)

\* C30 amended: while a thread reads the tile map, a loader that is loading
\* or uploading a different tile is not made to wait (publishing waits for
\* m_tilesMutex).
C30_ReaderNeverDelaysLoading ==
    \A th \in Loaders :
        ReaderBeside(th, {"loadData", "uploadToGPU"}) => LoaderCanStep(th)
C30_Witness ==
    /\ rendererTiles # <<>>
    /\ \E th \in Loaders : ReaderBeside(th, {"loadData", "uploadToGPU"}) /\ LoaderCanStep(th)

\* The mutex thread t is waiting for ("" when it is not waiting).
WaitsFor(t) ==
    IF /\ lockCall[t].rest # <<>> /\ Head(lockCall[t].rest)[1] = "lock"
       /\ mutexOwner[Head(lockCall[t].rest)[2]] # {}
    THEN Head(lockCall[t].rest)[2] ELSE ""

\* C31: an allocate or deallocate call on one pool never waits for the
\* statistics mutex or for another pool's mutex.
C31_HotPathWaitsOnlyForItsPool ==
    \A t \in Callers :
        lockCall[t].op \in {"allocate", "deallocate"}
        => WaitsFor(t) \in {"", lockCall[t].pool}

\* A set of threads each waiting for a mutex that a thread of the set holds:
\* none of them can ever go on.
BlockedForever(S) ==
    /\ S # {}
    /\ \A t \in S : WaitsFor(t) # "" /\ mutexOwner[WaitsFor(t)] \subseteq S

\* C39: with allocate, deallocate, getStats and the background worker running
\* concurrently, no thread is ever blocked forever on a pool mutex or on the
\* statistics mutex: no set of threads waits in a cycle.
C39_NoLockCycle == \A S \in SUBSET LockThreads : ~BlockedForever(S)
\* A thread holds the statistics mutex and waits for a pool mutex that another
\* thread holds, while a third thread waits for the statistics mutex.
C39_Witness ==
    \E t \in LockThreads, u \in LockThreads, w \in LockThreads :
        /\ mutexOwner[StatsMutex] = {t}
        /\ WaitsFor(t) \in PoolTypes /\ mutexOwner[WaitsFor(t)] = {u}
        /\ WaitsFor(w) = StatsMutex

\* Leaf q lies in the subtree of node c and holds object id.
HoldsBelow(nodes, c, id) ==
    \E q \in DOMAIN nodes :
        /\ Len(q) >= Len(c) /\ SubSeq(q, 1, Len(c)) = c
        /\ nodes[q].is_leaf /\ id \in Elems(nodes[q].objects)
\* Node p was a leaf and is an inner node after the step.
SplitBy(p) ==
    /\ p \in DOMAIN quadtree.nodes /\ quadtree.nodes[p].is_leaf
    /\ p \in DOMAIN quadtree'.nodes /\ ~quadtree'.nodes[p].is_leaf
ChildrenOf(nodes, p) == {q \in DOMAIN nodes : Len(q) = Len(p) + 1 /\ SubSeq(q, 1, Len(p)) = p}

C33_ResourcesKeptUntilDraw ==
    main \in {"markAccessed", "vkCmdDraw"} => tileObjs[CurrentTile].gpuValid

\* The tile the map holds for the staying candidate is in state s.
CandidateTileIs(s) ==
    /\ StayingCandidate \in DOMAIN rendererTiles
    /\ tileObjs[rendererTiles[StayingCandidate]].state = s
\* The candidate's tile is Ready and among the frame's visible tiles.
CandidateVisible ==
    /\ CandidateTileIs("Ready")
    /\ rendererTiles[StayingCandidate] \in Elems(visibleTiles)
\* No load or upload fails, and no thread stops in a nested lock.
AllGoesWell ==
    /\ main \notin {"blocked", "terminated"} /\ m_tilesMutex # "stuck"
    /\ streaming # "blocked" /\ loader[1].pc \notin {"blocked", "release"}
    /\ \A id \in EntryIds : tileObjs[id].state # "Error"
    /\ frame = NoFrame \/ frame.ret \in {"pending", "VK_SUCCESS"}

\* C34: a coordinate that stays a candidate frame after frame, and whose data
\* loads and uploads successfully, has its tile Ready and among a frame's
\* visible tiles eventually, also after the aging pass evicted its tile.
C34_EvictedCandidateComesBack ==
    ([]AllGoesWell) => (CandidateTileIs("Evicted") ~> CandidateVisible)

\* The coordinates the loader threads are working on: taken off the queue and
\* not yet published or dropped.
BeingLoaded ==
    {tileObjs[loader[th].item].coord :
       th \in {l \in Loaders : loader[l].pc \in {"loadData", "uploadToGPU", "publish", "release"}}}

\* C35: the load queue holds a coordinate at most once, holds no coordinate a
\* loader is working on, and so is never longer than the number of distinct
\* candidate coordinates.
C35_QueuedAtMostOnce ==
    /\ \A i, j \in 1..Len(m_loadingQueue) :
         i # j => m_loadingQueue[i].coord # m_loadingQueue[j].coord
    /\ \A i \in 1..Len(m_loadingQueue) : m_loadingQueue[i].coord \notin BeingLoaded
    /\ Len(m_loadingQueue) <= Cardinality(Coordinates)

\* The dataset table has no entry for d and the map holds no tile of d.
NothingOf(d) ==
    /\ d \notin m_datasets
    /\ \A c \in DOMAIN rendererTiles : c.datasetId # d

\* C36: once unloadDataset(id) has returned, the map holds no tile of the
\* dataset and the table no entry for it, until the dataset is loaded again,
\* also when loads for it were queued or in progress.
C36_UnloadedStaysUnloaded ==
    [][\A d \in DatasetChoices :
         (NothingOf(d) /\ ~LoadDataset(d)) => NothingOf(d)']_vars

\* C40: the active dataset id is empty or the id of a loaded dataset.
C40_ActiveDatasetIsLoaded == m_activeDataset = "" \/ m_activeDataset \in m_datasets

\* C37: with maxTiles at least 1, the tile a createTile(c) call returns is the
\* one the map holds under c when the call returns.
C37_ReturnedTileIsStored ==
    (lastCall.op = "createTile" /\ lastCall.how \in {"inserted", "existing"} /\ m_maxTiles >= 1)
        => lastCall.coord \in DOMAIN m_tiles

\* C38: a deallocate of an allocation that was deallocated before changes no
\* pool: used size and active-allocation count stay what the first deallocate
\* left, and neither goes below zero.
C38_SecondDeallocateNoEffect ==
    [][\A id \in Ids(allocs) :
         (allocs[id].destroyed >= 1 /\ allocs'[id].destroyed = allocs[id].destroyed + 1)
            => /\ pools' = pools
               /\ \A t \in DOMAIN pools' :
                    pools'[t].usedSize >= 0 /\ pools'[t].activeAllocations >= 0]_vars

=============================================================================
